---- MODULE Spec2Model ----
(***************************************************************************)
(* TPromise / TFuture as used and documented by ATFuture_TPromise_Example  *)
(* (Source/UnrealTemplatesGuide/TFuture_TPromise/TFuture_TPromise_Example  *)
(* .cpp).  A promise's shared state (TFutureState) is completed by         *)
(* SetValue -> EmplaceValue -> MarkComplete; Then()/Next() register a      *)
(* continuation on it that completes the state of the next link.           *)
(*                                                                         *)
(* `world` is the whole program state, a record, and every step of every   *)
(* operation is an operator from a world and a thread to the next world.   *)
(* Each thread has a call stack of frames: a continuation runs as a frame  *)
(* above the SetValue (or Then) frame that invokes it.  `twin` is a second *)
(* copy of the program, used only by SpecNextThen, where it runs the       *)
(* hand-written Then([](TFuture F){ return cb(F.Consume()); }) whenever    *)
(* `world` runs Next(cb).                                                  *)
(***************************************************************************)
EXTENDS Integers, Sequences, FiniteSets, TLC

VARIABLES world, twin, actor

vars == <<world, twin, actor>>

\* Longest Then()/Next() chain the client builds on one promise.
MaxChain == 2

\* One shared state for the promise, one more for every link.
States == 1..(MaxChain + 1)

\* Most copies made of one TSharedFuture.
MaxCopies == 2

\* The member PendingFuture: a TFuture that is default-constructed and never
\* assigned.
PendingFuture == 0

\* The TFuture handles: PendingFuture, and the future of every state.
Handles == {PendingFuture} \cup States

Threads == {"GameThread", "Worker"}

NoThread == "none"

---------------------------------------------------------------------------
(* Values: int32, FString and void results, with the same record shape.   *)

IntV(n) == [t |-> "int", i |-> n, s |-> ""]

StrV(str) == [t |-> "str", i |-> 0, s |-> str]

VoidV == [t |-> "void", i |-> 0, s |-> ""]

\* What IsValid() returns.
BoolV(b) == [t |-> "bool", i |-> IF b THEN 1 ELSE 0, s |-> ""]

\* TFutureState::Result before EmplaceValue.
NoValue == [t |-> "unset", i |-> 0, s |-> ""]

\* What Consume() leaves behind: an FString that was moved from is empty,
\* an int32 (or void) is unchanged by a move.
MovedFrom(v) == IF v.t = "str" THEN StrV("") ELSE v

\* The values the examples pass to the first SetValue.
RootValues == {IntV(12345), IntV(21), StrV("Hello, TFuture!")}

DigitChars == <<"0", "1", "2", "3", "4", "5", "6", "7", "8", "9">>

RECURSIVE NatToStr(_)
NatToStr(n) ==
    IF n < 10 THEN DigitChars[n + 1]
    ELSE NatToStr(n \div 10) \o DigitChars[(n % 10) + 1]

\* The %d conversion of FString::Printf.
PrintfD(n) == IF n < 0 THEN "-" \o NatToStr(-n) ELSE NatToStr(n)

\* The user callbacks of the examples.
Fns == {"Format", "StrLen", "Double", "FormatResult"}

\* Parameter type of each callback.
FnIn(fn) ==
    CASE fn = "Format" -> "int"
      [] fn = "StrLen" -> "str"
      [] fn = "Double" -> "int"
      [] fn = "FormatResult" -> "int"
      [] fn = "LogInt" -> "int"
      [] fn = "LogStr" -> "str"

\* Return type of each callback.
FnOut(fn) ==
    CASE fn = "Format" -> "str"
      [] fn = "StrLen" -> "int"
      [] fn = "Double" -> "int"
      [] fn = "FormatResult" -> "str"
      [] fn = "LogInt" -> "void"
      [] fn = "LogStr" -> "void"

\* Mutant of Format: the format string lacks the space after the colon.
FormatNoSpace(v) == StrV("Number:" \o PrintfD(v.i))

\* FString::Printf(TEXT("Number: %d"), Value)
Format(v) == StrV("Number: " \o PrintfD(v.i))

\* Str.Len()
StrLen(v) == IntV(Len(v.s))

\* Value * 2
Double(v) == IntV(v.i * 2)

\* FString::Printf(TEXT("Result=%d"), Value)
FormatResult(v) == StrV("Result=" \o PrintfD(v.i))

\* A callback that logs what it receives and returns nothing.
LogResult(v) == VoidV

Apply(fn, v) ==
    CASE fn = "Format" -> Format(v)
      [] fn = "StrLen" -> StrLen(v)
      [] fn = "Double" -> Double(v)
      [] fn = "FormatResult" -> FormatResult(v)
      [] fn \in {"LogInt", "LogStr"} -> LogResult(v)

---------------------------------------------------------------------------
(* Continuations, frames and the initial world.                            *)

\* An empty CompletionCallback.
NoCallback == [kind |-> "none", fn |-> "", target |-> 0]

\* Callback1 of Then(): [Promise2, Lambda1, Future1.State].  kind "Then" is
\* a user lambda taking the TFuture, kind "Next" the wrapper Next() builds.
Closure(kind, fn, target) == [kind |-> kind, fn |-> fn, target |-> target]

Frame(op, pc, s, v, cb) ==
    [op |-> op, pc |-> pc, s |-> s, v |-> v, cb |-> cb, flag |-> FALSE,
     copy |-> 0]

NoReg == [thread |-> NoThread, wasComplete |-> FALSE]

\* What the client's last Get() or Consume() returned.
NoRet == [op |-> "none", s |-> 0, val |-> NoValue, waited |-> FALSE,
          copy |-> 0]

\* What the last Then() or Next() returned: Future2 of state f2, and what
\* was complete at that moment.
NoThenRet == [orig |-> 0, f2 |-> 0, regComplete |-> FALSE,
              origComplete |-> FALSE, f2Complete |-> FALSE]

\* No check() has failed.
NoFatal == [op |-> "none", h |-> 0]

InitWorld(x, owner) ==
    [ complete     |-> [s \in States |-> FALSE],
      value        |-> [s \in States |-> NoValue],
      callback     |-> [s \in States |-> NoCallback],
      event        |-> [s \in States |-> FALSE],
      mutex        |-> [s \in States |-> NoThread],
      stype        |-> [s \in States |-> IF s = 1 THEN x.t ELSE "unset"],
      nstates      |-> 1,
      valid        |-> [h \in Handles |-> FALSE],
      shared       |-> <<>>,
      fatal        |-> NoFatal,
      futureTaken  |-> FALSE,
      x            |-> x,
      promiseOwner |-> owner,
      promiseSet   |-> FALSE,
      \* the TPromise handles, the reference count of each state's
      \* TSharedPtr, and the states that have been destroyed
      promise      |-> [t \in Threads |-> IF t = owner THEN 1 ELSE 0],
      refs         |-> [s \in States |-> IF s = 1 THEN 1 ELSE 0],
      destroyed    |-> [s \in States |-> FALSE],
      \* where BeginPlay stands: the example and the statement in it
      example      |-> 0,
      line         |-> 0,
      stack        |-> [t \in Threads |-> <<>>],
      log          |-> <<>>,
      ret          |-> NoRet,
      \* history: who registered / completed / ran what
      lastOp       |-> [h \in Handles |->
                          IF h = PendingFuture THEN "default" ELSE "none"],
      asked        |-> [s \in States |-> NoCallback],
      reg          |-> [s \in States |-> NoReg],
      nreg         |-> [s \in States |-> 0],
      completer    |-> [s \in States |-> NoThread],
      ran          |-> [s \in States |-> <<>>],
      linksAtCall  |-> 0,
      rootReturned |-> FALSE,
      thenRet      |-> NoThenRet ]

Idle(w, t) == w.stack[t] = <<>>

\* A check() has failed: the process is stopped where it stands.
Crashed(w) == w.fatal # NoFatal

Top(w, t) == w.stack[t][Len(w.stack[t])]

At(w, t, op, pc) ==
    /\ ~Idle(w, t)
    /\ Top(w, t).op = op
    /\ Top(w, t).pc = pc

SetTop(w, t, f) == [w EXCEPT !.stack[t] = [@ EXCEPT ![Len(@)] = f]]

Push(w, t, f) == [w EXCEPT !.stack[t] = Append(@, f)]

Pop(w, t) == [w EXCEPT !.stack[t] = SubSeq(@, 1, Len(@) - 1)]

\* FScopeLock Lock(&Mutex) can be entered.
LockFree(w, s) == w.mutex[s] = NoThread

---------------------------------------------------------------------------
(* Promise.SetValue(v): EmplaceValue, then MarkComplete's steps a to d.    *)

\* Mutant of DoEmplaceValue: the completion event is triggered as soon as
\* the result is stored, before bComplete is set.
DoEmplaceValueSignals(w, t) ==
    LET f == Top(w, t) IN
    SetTop([w EXCEPT !.value[f.s] = f.v, !.completer[f.s] = t,
                     !.event[f.s] = TRUE],
           t, [f EXCEPT !.pc = "TakeCallback"])

\* State->EmplaceValue(v): the result is stored before bComplete is set.
DoEmplaceValue(w, t) ==
    LET f == Top(w, t) IN
    SetTop([w EXCEPT !.value[f.s] = f.v, !.completer[f.s] = t],
           t, [f EXCEPT !.pc = "TakeCallback"])

\* Mutant of DoTakeCallback: the callback is copied and stays in the state.
DoTakeCallbackLeavesIt(w, t) ==
    LET f == Top(w, t) IN
    SetTop([w EXCEPT !.mutex[f.s] = t],
           t, [f EXCEPT !.cb = w.callback[f.s], !.pc = "SetComplete"])

\* MarkComplete a: enter the lock and take the CompletionCallback out.
DoTakeCallback(w, t) ==
    LET f == Top(w, t) IN
    SetTop([w EXCEPT !.mutex[f.s] = t, !.callback[f.s] = NoCallback],
           t, [f EXCEPT !.cb = w.callback[f.s], !.pc = "SetComplete"])

\* Mutant of DoSetComplete: the lock is left without setting bComplete.
DoSetCompleteForgetsFlag(w, t) ==
    LET f == Top(w, t) IN
    SetTop([w EXCEPT !.mutex[f.s] = NoThread], t, [f EXCEPT !.pc = "Trigger"])

\* Mutant of DoSetComplete: the lock is kept while the event is triggered
\* and the callback runs.
DoSetCompleteKeepsLock(w, t) ==
    LET f == Top(w, t) IN
    SetTop([w EXCEPT !.complete[f.s] = TRUE],
           t, [f EXCEPT !.pc = "Trigger"])

\* MarkComplete b: bComplete = true, and leave the lock.
DoSetComplete(w, t) ==
    LET f == Top(w, t) IN
    SetTop([w EXCEPT !.complete[f.s] = TRUE, !.mutex[f.s] = NoThread],
           t, [f EXCEPT !.pc = "Trigger"])

\* Mutant of DoTrigger: the event only wakes the threads that are waiting
\* at this moment, and is not left signalled for those that come later.
DoTriggerPulse(w, t) ==
    LET f == Top(w, t)
        waiting == \E u \in Threads :
                      /\ w.stack[u] # <<>>
                      /\ w.stack[u][Len(w.stack[u])].s = f.s
                      /\ w.stack[u][Len(w.stack[u])].op
                            \in {"Get", "Consume", "Wait", "SharedGet"}
    IN  SetTop([w EXCEPT !.event[f.s] = waiting],
               t, [f EXCEPT !.pc = "RunCallback"])

\* MarkComplete c: CompletionEvent->Trigger() wakes the waiting threads.
DoTrigger(w, t) ==
    LET f == Top(w, t) IN
    SetTop([w EXCEPT !.event[f.s] = TRUE], t, [f EXCEPT !.pc = "RunCallback"])

\* SetValue returns to its caller.
ReturnFromSetValue(w, t) ==
    Pop([w EXCEPT !.rootReturned = @ \/ Top(w, t).s = 1], t)

\* Mutant of InvokeCallback: every continuation is handed to the game
\* thread instead of running on the thread that invokes it.
InvokeCallbackOnGameThread(w, t, s, cb, retpc) ==
    Push(SetTop([w EXCEPT !.ran[s] = Append(@, "GameThread")],
                t, [Top(w, t) EXCEPT !.pc = retpc]),
         "GameThread", Frame("Callback", "CbConsume", s, NoValue, cb))

\* A continuation starts running on thread t, above the frame that invokes it.
InvokeCallback(w, t, s, cb, retpc) ==
    Push(SetTop([w EXCEPT !.ran[s] = Append(@, t)],
                t, [Top(w, t) EXCEPT !.pc = retpc]),
         t, Frame("Callback", "CbConsume", s, NoValue, cb))

\* Mutant of DoRunCallback: the callback that was taken out is dropped.
DoRunCallbackSkips(w, t) == ReturnFromSetValue(w, t)

\* MarkComplete d: run the callback that was taken out, if there was one.
DoRunCallback(w, t) ==
    LET f == Top(w, t) IN
    IF f.cb.kind = "none"
    THEN ReturnFromSetValue(w, t)
    ELSE InvokeCallback(w, t, f.s, f.cb, "SetValueRet")

DoSetValueRet(w, t) == ReturnFromSetValue(w, t)

---------------------------------------------------------------------------
(* The continuation Callback1:                                             *)
(*   SetPromiseValue(Promise2, Lambda1, TFuture<T>(Future1.State))         *)

\* Lambda1 of Then(): Value = IntFuture.Consume() moves the result out of
\* the state the temporary future views.
ThenLambdaConsume(w, t) ==
    LET f == Top(w, t) IN
    SetTop([w EXCEPT !.value[f.s] = MovedFrom(@)],
           t, [f EXCEPT !.v = w.value[f.s], !.pc = "CbBody"])

\* Mutant of NextWrapperConsume: the wrapper reads the value with Get()
\* and leaves it in the state.
NextWrapperGet(w, t) ==
    LET f == Top(w, t) IN
    SetTop(w, t, [f EXCEPT !.v = w.value[f.s], !.pc = "CbBody"])

\* The wrapper of Next(): Continuation(Self.Consume()).
NextWrapperConsume(w, t) ==
    LET f == Top(w, t) IN
    SetTop([w EXCEPT !.value[f.s] = MovedFrom(@)],
           t, [f EXCEPT !.v = w.value[f.s], !.pc = "CbBody"])

DoCbConsume(w, t) ==
    IF Top(w, t).cb.kind = "Next"
    THEN NextWrapperConsume(w, t)
    ELSE ThenLambdaConsume(w, t)

\* Mutant of DoCbBody: Promise2 is set to the callback's argument, not to
\* what the callback returns.
DoCbBodyForwardsArgument(w, t) ==
    LET f == Top(w, t)
        r == Apply(f.cb.fn, f.v)
    IN  Push(SetTop([w EXCEPT !.log = Append(@, [src |-> f.s, fn |-> f.cb.fn,
                                                 arg |-> f.v, res |-> r])],
                    t, [f EXCEPT !.v = r, !.pc = "CbRet"]),
             t, Frame("SetValue", "Emplace", f.cb.target, f.v, NoCallback))

\* The user's callback body computes the result and UE_LOGs it, and
\* SetPromiseValue passes what it returns to Promise2.SetValue.
DoCbBody(w, t) ==
    LET f == Top(w, t)
        r == Apply(f.cb.fn, f.v)
    IN  Push(SetTop([w EXCEPT !.log = Append(@, [src |-> f.s, fn |-> f.cb.fn,
                                                 arg |-> f.v, res |-> r])],
                    t, [f EXCEPT !.v = r, !.pc = "CbRet"]),
             t, Frame("SetValue", "Emplace", f.cb.target, r, NoCallback))

DoCbRet(w, t) == Pop(w, t)

---------------------------------------------------------------------------
(* Future1.Then(Lambda1), steps a to e, and the return of Future2.         *)

\* Mutant of DoThenCreate: Future1 keeps its state.
DoThenCreateKeepsFuture(w, t) ==
    LET f  == Top(w, t)
        s2 == w.nstates + 1
    IN  SetTop([w EXCEPT !.nstates = s2,
                         !.stype[s2] = FnOut(f.cb.fn)],
               t, [f EXCEPT !.cb.target = s2, !.pc = "SetContinuation"])

\* a-d: create Promise2 and Future2, build Callback1, move Future1.State
\* into MovedState (Future1 becomes invalid).
DoThenCreate(w, t) ==
    LET f  == Top(w, t)
        s2 == w.nstates + 1
    IN  SetTop([w EXCEPT !.nstates = s2,
                         !.stype[s2] = FnOut(f.cb.fn),
                         !.valid[f.s] = FALSE],
               t, [f EXCEPT !.cb.target = s2, !.pc = "SetContinuation"])

\* Mutant of DoSetContinuation: the callback is stored without looking at
\* bComplete.
DoSetContinuationAlwaysStores(w, t) ==
    LET f == Top(w, t) IN
    SetTop([w EXCEPT !.mutex[f.s] = t,
                     !.reg[f.s] = [thread |-> t,
                                   wasComplete |-> w.complete[f.s]],
                     !.nreg[f.s] = @ + 1,
                     !.callback[f.s] = f.cb],
           t, [f EXCEPT !.pc = "Unlock"])

\* e: MovedState->SetContinuation(Callback1), inside the lock: keep the
\* callback if the state is not complete yet, else remember to run it.
DoSetContinuation(w, t) ==
    LET f == Top(w, t)
        c == w.complete[f.s]
        w1 == [w EXCEPT !.mutex[f.s] = t,
                        !.reg[f.s] = [thread |-> t, wasComplete |-> c],
                        !.nreg[f.s] = @ + 1]
    IN  IF c
        THEN SetTop(w1, t, [f EXCEPT !.flag = TRUE, !.pc = "Unlock"])
        ELSE SetTop([w1 EXCEPT !.callback[f.s] = f.cb],
                    t, [f EXCEPT !.pc = "Unlock"])

\* Mutant of DoUnlock: a callback set on a future that is already complete
\* is not run.
DoUnlockNeverRuns(w, t) ==
    LET f == Top(w, t) IN
    SetTop([w EXCEPT !.mutex[f.s] = NoThread], t, [f EXCEPT !.pc = "ThenRet"])

\* Leave the lock; a future that was already complete runs the callback
\* at once on the calling thread.
DoUnlock(w, t) ==
    LET f  == Top(w, t)
        w1 == [w EXCEPT !.mutex[f.s] = NoThread]
    IN  IF f.flag
        THEN InvokeCallback(w1, t, f.s, f.cb, "ThenRet")
        ELSE SetTop(w1, t, [f EXCEPT !.pc = "ThenRet"])

\* Then() returns Future2.
DoThenRet(w, t) ==
    LET f == Top(w, t) IN
    Pop([w EXCEPT !.valid[f.cb.target] = TRUE,
                  !.thenRet = [orig |-> f.s, f2 |-> f.cb.target,
                               regComplete |-> f.flag,
                               origComplete |-> w.complete[f.s],
                               f2Complete |-> w.complete[f.cb.target]]],
        t)

---------------------------------------------------------------------------
(* Future.Get() and Future.Consume() of the client.                        *)

\* Mutant of DoGet: the value is moved out of the state, as Consume() does.
DoGetMovesValue(w, t) ==
    LET f == Top(w, t) IN
    Pop([w EXCEPT !.ret = [op |-> "Get", s |-> f.s,
                           val |-> w.value[f.s], waited |-> f.flag,
                           copy |-> f.copy],
                  !.value[f.s] = MovedFrom(@)],
        t)

\* Get(): wait for the completion event, return a const reference.
DoGet(w, t) ==
    LET f == Top(w, t) IN
    Pop([w EXCEPT !.ret = [op |-> "Get", s |-> f.s,
                           val |-> w.value[f.s], waited |-> f.flag,
                           copy |-> f.copy]],
        t)

\* Mutant of DoConsume: the value is moved out but the future stays valid.
DoConsumeKeepsValid(w, t) ==
    LET f == Top(w, t) IN
    Pop([w EXCEPT !.ret = [op |-> "Consume", s |-> f.s,
                           val |-> w.value[f.s], waited |-> f.flag,
                           copy |-> f.copy],
                  !.value[f.s] = MovedFrom(@)],
        t)

\* Consume(): wait, move the value out, the future becomes invalid.
DoConsume(w, t) ==
    LET f == Top(w, t) IN
    Pop([w EXCEPT !.ret = [op |-> "Consume", s |-> f.s,
                           val |-> w.value[f.s], waited |-> f.flag,
                           copy |-> f.copy],
                  !.value[f.s] = MovedFrom(@),
                  !.valid[f.s] = FALSE],
        t)

\* Mutant of DoWait: the future gives up its state once the wait is over,
\* as it does in Consume().
DoWaitInvalidates(w, t) ==
    LET f == Top(w, t) IN
    Pop([w EXCEPT !.ret = [op |-> "Wait", s |-> f.s,
                           val |-> NoValue, waited |-> f.flag,
                           copy |-> 0],
                  !.valid[f.s] = FALSE],
        t)

\* Wait(): wait for the completion event; nothing is returned and the
\* future is left as it is.
DoWait(w, t) ==
    LET f == Top(w, t) IN
    Pop([w EXCEPT !.ret = [op |-> "Wait", s |-> f.s,
                           val |-> NoValue, waited |-> f.flag,
                           copy |-> 0]],
        t)

\* A wait with a timeout ends when the event is triggered or when the time
\* is over, whichever comes first, and returns whether the state is ready.
DoWaitFor(w, t) ==
    LET f == Top(w, t) IN
    Pop([w EXCEPT !.ret = [op |-> "WaitFor", s |-> f.s,
                           val |-> BoolV(w.event[f.s]), waited |-> f.flag,
                           copy |-> 0]],
        t)

\* IsValid(): whether the handle's State pointer is set.
DoIsValid(w, h) ==
    [w EXCEPT !.ret = [op |-> "IsValid", s |-> h,
                       val |-> BoolV(w.valid[h]), waited |-> FALSE,
                       copy |-> 0]]

---------------------------------------------------------------------------
(* TSharedFuture: Share(), copies, and Get() on a copy.                    *)

\* A TSharedFuture handle on state s.
SharedHandle(s) == [s |-> s, valid |-> TRUE]

\* Mutant of DoShare: the TSharedFuture is made from a copy of the state
\* pointer, and the TFuture keeps its own.
DoShareKeepsFuture(w, h) ==
    [w EXCEPT !.shared = Append(@, SharedHandle(h))]

\* Future.Share(): the state moves from the TFuture into a new
\* TSharedFuture, and the TFuture becomes invalid.
DoShare(w, h) ==
    [w EXCEPT !.valid[h] = FALSE,
              !.shared = Append(@, SharedHandle(h))]

\* TSharedFuture Copy = Shared: one more handle on the same state.
DoCopy(w, k) ==
    [w EXCEPT !.shared = Append(@, SharedHandle(w.shared[k].s))]

\* Mutant of DoSharedGet: the value is moved out to the first reader.
DoSharedGetMovesValue(w, t) ==
    LET f == Top(w, t) IN
    Pop([w EXCEPT !.ret = [op |-> "SharedGet", s |-> f.s,
                           val |-> w.value[f.s], waited |-> f.flag,
                           copy |-> f.copy],
                  !.value[f.s] = MovedFrom(@)],
        t)

\* Mutant of DoSharedGet: the copy that was read gives up its state, as a
\* TFuture does in Consume().
DoSharedGetInvalidates(w, t) ==
    LET f == Top(w, t) IN
    Pop([w EXCEPT !.ret = [op |-> "SharedGet", s |-> f.s,
                           val |-> w.value[f.s], waited |-> f.flag,
                           copy |-> f.copy],
                  !.shared[f.copy].valid = FALSE],
        t)

\* Copy.Get(): wait for the completion event, return a const reference; the
\* value stays in the state and the handle stays valid.
DoSharedGet(w, t) ==
    LET f == Top(w, t) IN
    Pop([w EXCEPT !.ret = [op |-> "SharedGet", s |-> f.s,
                           val |-> w.value[f.s], waited |-> f.flag,
                           copy |-> f.copy]],
        t)

---------------------------------------------------------------------------
(* One step of a thread that is inside an operation.                       *)

\* Mutant of CanStep: Get() and Consume() return without waiting for the
\* completion event.
CanStepWithoutWaiting(w, t) ==
    /\ ~Idle(w, t)
    /\ ~Crashed(w)
    /\ LET f == Top(w, t) IN
       CASE f.pc \in {"TakeCallback", "SetContinuation"} -> LockFree(w, f.s)
         [] OTHER -> TRUE

\* Mutant of CanStep: SetContinuation waits until the state is complete.
CanStepThenWaits(w, t) ==
    /\ ~Idle(w, t)
    /\ ~Crashed(w)
    /\ LET f == Top(w, t) IN
       CASE f.pc = "TakeCallback" -> LockFree(w, f.s)
         [] f.pc = "SetContinuation" -> LockFree(w, f.s) /\ w.event[f.s]
         [] f.pc \in {"CbConsume", "GetWait", "ConsumeWait", "WaitWait",
                      "SharedGetWait"} -> w.event[f.s]
         [] OTHER -> TRUE

\* Mutant of WaitingPcs: Wait() does not block.
WaitingPcsWithoutWait ==
    {"CbConsume", "GetWait", "ConsumeWait", "SharedGetWait"}

\* The steps that block until the completion event is triggered.
WaitingPcs ==
    {"CbConsume", "GetWait", "ConsumeWait", "WaitWait", "SharedGetWait"}

\* A thread inside an operation can take its next step: the lock must be
\* free to enter it, and Get(), Consume(), Wait() wait for the completion
\* event.
CanStep(w, t) ==
    /\ ~Idle(w, t)
    /\ ~Crashed(w)
    /\ LET f == Top(w, t) IN
       CASE f.pc \in {"TakeCallback", "SetContinuation"} -> LockFree(w, f.s)
         [] f.pc \in WaitingPcs -> w.event[f.s]
         [] OTHER -> TRUE

ThreadStep(w, t) ==
    LET pc == Top(w, t).pc IN
    CASE pc = "Emplace" -> DoEmplaceValue(w, t)
      [] pc = "TakeCallback" -> DoTakeCallback(w, t)
      [] pc = "SetComplete" -> DoSetComplete(w, t)
      [] pc = "Trigger" -> DoTrigger(w, t)
      [] pc = "RunCallback" -> DoRunCallback(w, t)
      [] pc = "SetValueRet" -> DoSetValueRet(w, t)
      [] pc = "CbConsume" -> DoCbConsume(w, t)
      [] pc = "CbBody" -> DoCbBody(w, t)
      [] pc = "CbRet" -> DoCbRet(w, t)
      [] pc = "ThenCreate" -> DoThenCreate(w, t)
      [] pc = "SetContinuation" -> DoSetContinuation(w, t)
      [] pc = "Unlock" -> DoUnlock(w, t)
      [] pc = "ThenRet" -> DoThenRet(w, t)
      [] pc = "GetWait" -> DoGet(w, t)
      [] pc = "ConsumeWait" -> DoConsume(w, t)
      [] pc = "WaitWait" -> DoWait(w, t)
      [] pc = "WaitForWait" -> DoWaitFor(w, t)
      [] pc = "SharedGetWait" -> DoSharedGet(w, t)

---------------------------------------------------------------------------
(* The calls the example code makes, by an idle thread.                    *)

Call(op, h, fn) == [op |-> op, h |-> h, fn |-> fn]

\* Number of continuations stored and not yet taken.
StoredCallbacks(w) == Cardinality({s \in States : w.callback[s].kind # "none"})

CanCall(w, t, c) ==
    /\ Idle(w, t)
    /\ ~Crashed(w)
    /\ CASE c.op = "GetFuture" -> t = "GameThread" /\ ~w.futureTaken
         [] c.op = "SetValue" ->
                /\ t = w.promiseOwner
                /\ ~w.promiseSet
                /\ (t = "Worker" => w.futureTaken)
         [] c.op \in {"Get", "Consume"} -> t = "GameThread" /\ w.valid[c.h]
         [] c.op \in {"Then", "Next"} ->
                /\ t = "GameThread"
                /\ w.valid[c.h]
                /\ w.nstates <= MaxChain
                /\ FnIn(c.fn) = w.stype[c.h]

\* A call by the game thread overwrites what its last call returned.
DoCall(w0, t, c) ==
    LET w == IF t = "GameThread"
             THEN [w0 EXCEPT !.ret = NoRet, !.thenRet = NoThenRet]
             ELSE w0
    IN
    CASE c.op = "GetFuture" ->
            [w EXCEPT !.futureTaken = TRUE, !.valid[1] = TRUE]
      [] c.op = "SetValue" ->
            Push([w EXCEPT !.promiseSet = TRUE,
                           !.linksAtCall = StoredCallbacks(w)],
                 t, Frame("SetValue", "Emplace", 1, w.x, NoCallback))
      [] c.op = "Get" ->
            Push(w, t, [Frame("Get", "GetWait", c.h, NoValue, NoCallback)
                            EXCEPT !.flag = ~w.event[c.h]])
      [] c.op = "Consume" ->
            Push(w, t, [Frame("Consume", "ConsumeWait", c.h, NoValue, NoCallback)
                            EXCEPT !.flag = ~w.event[c.h]])
      [] c.op \in {"Then", "Next"} ->
            Push([w EXCEPT !.asked[c.h] = Closure(c.op, c.fn, 0)],
                 t, Frame("Then", "ThenCreate", c.h, NoValue,
                          Closure(c.op, c.fn, 0)))

---------------------------------------------------------------------------
(* ATPimplPtr_Example (Source/UnrealTemplatesGuide/TPimplPtr/              *)
(* TPimplPtr_Example.cpp): an actor whose private members live in FImpl,   *)
(* owned through TPimplPtr<FImpl> Impl.  `actor` is the actor; in the      *)
(* specifications of the promise and the future it is never constructed.   *)
(*                                                                         *)
(* Times are counted in half seconds, which a float holds exactly.  A      *)
(* float that Calculate() produces is kept as the triple (in, k, at) that  *)
(* stands for in * k + sin(at / 2), with k = 0 when in = 0: two triples of *)
(* the model are the same float only when they are the same triple,        *)
(* because the sine of the few seconds the model follows is no integer.   *)

\* Most IncrementCounter() calls from 0 that the model follows.
MaxIncrements == 2

\* Tick() is followed until AccumulatedTime reaches this many half seconds.
MaxTime == 2

\* Most BeginPlay() calls on one actor.
MaxBeginPlays == 2

\* INT32_MAX and INT32_MIN, written so that no part exceeds an int32.
Int32Max == 2^30 - 1 + 2^30

Int32Min == -Int32Max - 1

\* 0.0f.
Zero == [in |-> 0, k |-> 0, at |-> 0]

\* FMath::FloorToInt of a time in half seconds.
FloorToInt(x) == x \div 2

\* FImpl(const FString& InName, int32 InInitialCounter).
FImpl(InName, InInitialCounter) ==
    [DisplayName |-> InName,
     Counter |-> InInitialCounter,
     AccumulatedTime |-> 0,
     LastCalculationResult |-> Zero,
     bIsInitialized |-> FALSE,
     StateHistory |-> <<>>]

\* An Initialize() that does not test bIsInitialized.
InitializeUnguarded(o) ==
    [o EXCEPT !.bIsInitialized = TRUE,
              !.StateHistory = Append(@, Zero)]

\* FImpl::Initialize().
Initialize(o) ==
    IF ~o.bIsInitialized
    THEN [o EXCEPT !.bIsInitialized = TRUE,
                   !.StateHistory = Append(@, Zero)]
    ELSE o

\* FImpl::Update(DeltaTime).
Update(o, DeltaTime) ==
    LET p == [o EXCEPT !.AccumulatedTime = @ + DeltaTime]
    IN  IF FloorToInt(p.AccumulatedTime) > Len(p.StateHistory)
        THEN [p EXCEPT !.StateHistory = Append(@, p.LastCalculationResult)]
        ELSE p

\* Counter + 1 (and Counter++) on an int32.  At INT32_MAX the addition
\* overflows, which is undefined: the build either wraps around or traps.
Incremented(n) ==
    IF n < Int32Max
    THEN {[Counter |-> n + 1, crashed |-> FALSE]}
    ELSE {[Counter |-> Int32Min, crashed |-> FALSE],
          [Counter |-> n, crashed |-> TRUE]}

\* FImpl::Calculate(Input), with the outcome `inc` of Counter + 1; the
\* result is LastCalculationResult of the object returned.
Calculate(o, Input, inc) ==
    [o EXCEPT !.LastCalculationResult =
                  [in |-> Input,
                   k |-> IF Input = 0 THEN 0 ELSE inc.Counter,
                   at |-> o.AccumulatedTime]]

\* A Reset() that adds its entry without emptying StateHistory first.
ResetKeepsHistory(o) ==
    [o EXCEPT !.Counter = 0,
              !.AccumulatedTime = 0,
              !.LastCalculationResult = Zero,
              !.StateHistory = Append(@, Zero)]

\* FImpl::Reset().
Reset(o) ==
    [o EXCEPT !.Counter = 0,
              !.AccumulatedTime = 0,
              !.LastCalculationResult = Zero,
              !.StateHistory = <<Zero>>]

\* A TPimplPtr that owns nothing.
NullPimpl == [valid |-> FALSE, obj |-> FImpl("", 0)]

MakePimpl(o) == [valid |-> TRUE, obj |-> o]

\* What the last operation returned: `fallback` tells that it returned the
\* value of its branch for an invalid Impl.  An operation that ends in a trap
\* returns nothing; its op is "trap".
Returned(op, fallback, int, str, flt) ==
    [op |-> op, fallback |-> fallback, int |-> int, str |-> str, flt |-> flt]

\* The actor before its constructor has run.
NoActor ==
    [Impl |-> NullPimpl,
     before |-> NullPimpl,
     ret |-> Returned("none", FALSE, 0, "", Zero),
     incs |-> [since |-> 0, n |-> 0],
     initialEntries |-> 0,
     plays |-> 0,
     crashed |-> FALSE]

\* An operation ends: Impl is now p, the Impl the operation started from is
\* remembered in `before`.
Done(a, p, r) == [a EXCEPT !.Impl = p, !.before = a.Impl, !.ret = r]

NoResult(op) == Returned(op, FALSE, 0, "", Zero)

\* A constructor that leaves Impl empty.
ConstructWithoutImpl == [NoActor EXCEPT !.ret = NoResult("Construct")]

\* ATPimplPtr_Example::ATPimplPtr_Example().
Construct ==
    [NoActor EXCEPT !.Impl = MakePimpl(FImpl("PimplExampleActor", 0)),
                    !.ret = NoResult("Construct")]

\* ATPimplPtr_Example::PrintDebugInfo(): it only logs.
DoPrintDebugInfo(a) ==
    Done(a, a.Impl, Returned("PrintDebugInfo", ~a.Impl.valid, 0, "", Zero))

\* ATPimplPtr_Example::BeginPlay().  initialEntries counts the entries of
\* StateHistory that Initialize() has appended.
DoBeginPlay(a) ==
    LET p == IF a.Impl.valid
             THEN [a.Impl EXCEPT !.obj = Initialize(@)]
             ELSE a.Impl
        b == DoPrintDebugInfo(Done(a, p, NoResult("BeginPlay")))
    IN  [b EXCEPT !.before = a.Impl,
                  !.ret = NoResult("BeginPlay"),
                  !.plays = @ + 1,
                  !.initialEntries = @ + Len(p.obj.StateHistory)
                                       - Len(a.Impl.obj.StateHistory)]

\* ATPimplPtr_Example::Tick(DeltaTime).
DoTick(a, DeltaTime) ==
    Done(a,
         IF a.Impl.valid
         THEN [a.Impl EXCEPT !.obj = Update(@, DeltaTime)]
         ELSE a.Impl,
         NoResult("Tick"))

\* ATPimplPtr_Example::SetActorDisplayName(NewName).
DoSetActorDisplayName(a, NewName) ==
    Done(a,
         IF a.Impl.valid
         THEN [a.Impl EXCEPT !.obj.DisplayName = NewName]
         ELSE a.Impl,
         NoResult("SetActorDisplayName"))

\* ATPimplPtr_Example::GetActorDisplayName().
DoGetActorDisplayName(a) ==
    Done(a, a.Impl,
         IF a.Impl.valid
         THEN Returned("GetActorDisplayName", FALSE, 0,
                       a.Impl.obj.DisplayName, Zero)
         ELSE Returned("GetActorDisplayName", TRUE, 0, "Invalid", Zero))

\* ATPimplPtr_Example::IncrementCounter(), with the outcome `inc` of the
\* increment.  incs counts the calls since construction or the last
\* ResetState(): they are incs.since + incs.n, a sum that is never computed
\* because it can exceed an int32.
DoIncrementCounter(a, inc) ==
    LET trap == a.Impl.valid /\ inc.crashed
        b == Done(a,
                  IF a.Impl.valid
                  THEN [a.Impl EXCEPT !.obj.Counter = inc.Counter]
                  ELSE a.Impl,
                  NoResult(IF trap THEN "trap" ELSE "IncrementCounter"))
    IN  [b EXCEPT !.incs.n = @ + 1, !.crashed = trap]

\* ATPimplPtr_Example::GetCounter().
DoGetCounter(a) ==
    Done(a, a.Impl,
         IF a.Impl.valid
         THEN Returned("GetCounter", FALSE, a.Impl.obj.Counter, "", Zero)
         ELSE Returned("GetCounter", TRUE, -1, "", Zero))

\* ATPimplPtr_Example::ResetState().
DoResetState(a) ==
    LET b == Done(a,
                  IF a.Impl.valid
                  THEN [a.Impl EXCEPT !.obj = Reset(@)]
                  ELSE a.Impl,
                  NoResult("ResetState"))
    IN  [b EXCEPT !.incs = [since |-> 0, n |-> 0]]

\* ATPimplPtr_Example::PerformCalculation(InputValue).
DoPerformCalculation(a, InputValue, inc) ==
    IF a.Impl.valid /\ inc.crashed
    THEN [Done(a, a.Impl, NoResult("trap")) EXCEPT !.crashed = TRUE]
    ELSE IF a.Impl.valid
    THEN LET o == Calculate(a.Impl.obj, InputValue, inc)
         IN  Done(a, [a.Impl EXCEPT !.obj = o],
                  Returned("PerformCalculation", FALSE, 0, "",
                           o.LastCalculationResult))
    ELSE Done(a, a.Impl, Returned("PerformCalculation", TRUE, 0, "", Zero))

\* ATPimplPtr_Example::IsImplValid(): the int of the result is 1 for true.
DoIsImplValid(a) ==
    Done(a, a.Impl,
         Returned("IsImplValid", FALSE, IF a.Impl.valid THEN 1 ELSE 0, "",
                  Zero))

\* The names, inputs and frame times the callers pass.
Names == {"Hero", "Invalid"}

Inputs == {0, 2}

DeltaTimes == {1, 3}

\* The actor after construction, and the same actor after the
\* IncrementCounter() calls that bring Counter next to INT32_MAX.
ManyIncrements(a) ==
    [a EXCEPT !.Impl.obj.Counter = Int32Max - 1,
              !.incs = [since |-> Int32Max - 1, n |-> 0]]

InitPimpl ==
    /\ world = InitWorld(IntV(0), "GameThread")
    /\ twin = world
    /\ actor \in {Construct, ManyIncrements(Construct)}

Alive == ~actor.crashed

BeginPlay ==
    /\ Alive
    /\ actor.plays < MaxBeginPlays
    /\ actor' = DoBeginPlay(actor)
    /\ UNCHANGED <<world, twin>>

Tick ==
    /\ Alive
    /\ actor.Impl.obj.AccumulatedTime < MaxTime
    /\ \E DeltaTime \in DeltaTimes : actor' = DoTick(actor, DeltaTime)
    /\ UNCHANGED <<world, twin>>

SetActorDisplayName ==
    /\ Alive
    /\ \E NewName \in Names : actor' = DoSetActorDisplayName(actor, NewName)
    /\ UNCHANGED <<world, twin>>

GetActorDisplayName ==
    /\ Alive
    /\ actor' = DoGetActorDisplayName(actor)
    /\ UNCHANGED <<world, twin>>

IncrementCounter ==
    /\ Alive
    /\ \/ actor.Impl.obj.Counter \in 0..(MaxIncrements - 1)
       \/ actor.Impl.obj.Counter >= Int32Max - 1
    /\ \E inc \in Incremented(actor.Impl.obj.Counter) :
           actor' = DoIncrementCounter(actor, inc)
    /\ UNCHANGED <<world, twin>>

GetCounter ==
    /\ Alive
    /\ actor' = DoGetCounter(actor)
    /\ UNCHANGED <<world, twin>>

ResetState ==
    /\ Alive
    /\ actor' = DoResetState(actor)
    /\ UNCHANGED <<world, twin>>

PerformCalculation ==
    /\ Alive
    /\ \E InputValue \in Inputs, inc \in Incremented(actor.Impl.obj.Counter) :
           actor' = DoPerformCalculation(actor, InputValue, inc)
    /\ UNCHANGED <<world, twin>>

IsImplValid ==
    /\ Alive
    /\ actor' = DoIsImplValid(actor)
    /\ UNCHANGED <<world, twin>>

PrintDebugInfo ==
    /\ Alive
    /\ actor' = DoPrintDebugInfo(actor)
    /\ UNCHANGED <<world, twin>>

NextPimpl ==
    \/ BeginPlay
    \/ Tick
    \/ SetActorDisplayName
    \/ GetActorDisplayName
    \/ IncrementCounter
    \/ GetCounter
    \/ ResetState
    \/ PerformCalculation
    \/ IsImplValid
    \/ PrintDebugInfo

SpecPimpl == InitPimpl /\ [][NextPimpl]_vars

---------------------------------------------------------------------------
(* The program: the game thread and the worker thread, interleaved.        *)

Init ==
    /\ world \in {InitWorld(x, o) : x \in RootValues, o \in Threads}
    /\ twin = world
    /\ actor = NoActor

GetFuture ==
    /\ CanCall(world, "GameThread", Call("GetFuture", 1, "Double"))
    /\ world' = DoCall(world, "GameThread", Call("GetFuture", 1, "Double"))
    /\ UNCHANGED <<twin, actor>>

SetValue(t) ==
    /\ CanCall(world, t, Call("SetValue", 1, "Double"))
    /\ world' = DoCall(world, t, Call("SetValue", 1, "Double"))
    /\ UNCHANGED <<twin, actor>>

Get(h) ==
    /\ CanCall(world, "GameThread", Call("Get", h, "Double"))
    /\ world' = DoCall(world, "GameThread", Call("Get", h, "Double"))
    /\ UNCHANGED <<twin, actor>>

Consume(h) ==
    /\ CanCall(world, "GameThread", Call("Consume", h, "Double"))
    /\ world' = DoCall(world, "GameThread", Call("Consume", h, "Double"))
    /\ UNCHANGED <<twin, actor>>

Then(h, fn) ==
    /\ CanCall(world, "GameThread", Call("Then", h, fn))
    /\ world' = DoCall(world, "GameThread", Call("Then", h, fn))
    /\ UNCHANGED <<twin, actor>>

NextCall(h, fn) ==
    /\ CanCall(world, "GameThread", Call("Next", h, fn))
    /\ world' = DoCall(world, "GameThread", Call("Next", h, fn))
    /\ UNCHANGED <<twin, actor>>

EmplaceValue(t) ==
    /\ CanStep(world, t)
    /\ Top(world, t).pc = "Emplace"
    /\ world' = DoEmplaceValue(world, t)
    /\ UNCHANGED <<twin, actor>>

TakeCallback(t) ==
    /\ CanStep(world, t)
    /\ Top(world, t).pc = "TakeCallback"
    /\ world' = DoTakeCallback(world, t)
    /\ UNCHANGED <<twin, actor>>

SetComplete(t) ==
    /\ CanStep(world, t)
    /\ Top(world, t).pc = "SetComplete"
    /\ world' = DoSetComplete(world, t)
    /\ UNCHANGED <<twin, actor>>

Trigger(t) ==
    /\ CanStep(world, t)
    /\ Top(world, t).pc = "Trigger"
    /\ world' = DoTrigger(world, t)
    /\ UNCHANGED <<twin, actor>>

RunCallback(t) ==
    /\ CanStep(world, t)
    /\ Top(world, t).pc = "RunCallback"
    /\ world' = DoRunCallback(world, t)
    /\ UNCHANGED <<twin, actor>>

SetValueRet(t) ==
    /\ CanStep(world, t)
    /\ Top(world, t).pc = "SetValueRet"
    /\ world' = DoSetValueRet(world, t)
    /\ UNCHANGED <<twin, actor>>

CbConsume(t) ==
    /\ CanStep(world, t)
    /\ Top(world, t).pc = "CbConsume"
    /\ world' = DoCbConsume(world, t)
    /\ UNCHANGED <<twin, actor>>

CbBody(t) ==
    /\ CanStep(world, t)
    /\ Top(world, t).pc = "CbBody"
    /\ world' = DoCbBody(world, t)
    /\ UNCHANGED <<twin, actor>>

CbRet(t) ==
    /\ CanStep(world, t)
    /\ Top(world, t).pc = "CbRet"
    /\ world' = DoCbRet(world, t)
    /\ UNCHANGED <<twin, actor>>

ThenCreate(t) ==
    /\ CanStep(world, t)
    /\ Top(world, t).pc = "ThenCreate"
    /\ world' = DoThenCreate(world, t)
    /\ UNCHANGED <<twin, actor>>

SetContinuation(t) ==
    /\ CanStep(world, t)
    /\ Top(world, t).pc = "SetContinuation"
    /\ world' = DoSetContinuation(world, t)
    /\ UNCHANGED <<twin, actor>>

Unlock(t) ==
    /\ CanStep(world, t)
    /\ Top(world, t).pc = "Unlock"
    /\ world' = DoUnlock(world, t)
    /\ UNCHANGED <<twin, actor>>

ThenRet(t) ==
    /\ CanStep(world, t)
    /\ Top(world, t).pc = "ThenRet"
    /\ world' = DoThenRet(world, t)
    /\ UNCHANGED <<twin, actor>>

GetWait(t) ==
    /\ CanStep(world, t)
    /\ Top(world, t).pc = "GetWait"
    /\ world' = DoGet(world, t)
    /\ UNCHANGED <<twin, actor>>

ConsumeWait(t) ==
    /\ CanStep(world, t)
    /\ Top(world, t).pc = "ConsumeWait"
    /\ world' = DoConsume(world, t)
    /\ UNCHANGED <<twin, actor>>

Next ==
    \/ GetFuture
    \/ \E t \in Threads : SetValue(t)
    \/ \E h \in States : Get(h)
    \/ \E h \in States : Consume(h)
    \/ \E h \in States, fn \in Fns : Then(h, fn)
    \/ \E h \in States, fn \in Fns : NextCall(h, fn)
    \/ \E t \in Threads : EmplaceValue(t)
    \/ \E t \in Threads : TakeCallback(t)
    \/ \E t \in Threads : SetComplete(t)
    \/ \E t \in Threads : Trigger(t)
    \/ \E t \in Threads : RunCallback(t)
    \/ \E t \in Threads : SetValueRet(t)
    \/ \E t \in Threads : CbConsume(t)
    \/ \E t \in Threads : CbBody(t)
    \/ \E t \in Threads : CbRet(t)
    \/ \E t \in Threads : ThenCreate(t)
    \/ \E t \in Threads : SetContinuation(t)
    \/ \E t \in Threads : Unlock(t)
    \/ \E t \in Threads : ThenRet(t)
    \/ \E t \in Threads : GetWait(t)
    \/ \E t \in Threads : ConsumeWait(t)

Spec == Init /\ [][Next]_vars

---------------------------------------------------------------------------
(* Next(cb) beside Then([](TFuture F){ return cb(F.Consume()); }): both    *)
(* copies of the program make the same calls on the same schedule, except  *)
(* that every link is a Next call in `world` and the hand-written Then     *)
(* call in `twin`.                                                         *)

AsThen(c) == IF c.op = "Next" THEN [c EXCEPT !.op = "Then"] ELSE c

ClientCalls ==
    {Call(op, h, fn) : op \in {"GetFuture", "SetValue", "Get", "Consume",
                               "Then", "Next"},
                       h \in States, fn \in Fns}

BothCall ==
    \E t \in Threads, c \in ClientCalls :
        /\ c.op # "Then"
        /\ CanCall(world, t, c)
        /\ CanCall(twin, t, AsThen(c))
        /\ world' = DoCall(world, t, c)
        /\ twin' = DoCall(twin, t, AsThen(c))
        /\ UNCHANGED actor

BothStep ==
    \E t \in Threads :
        /\ CanStep(world, t)
        /\ CanStep(twin, t)
        /\ world' = ThreadStep(world, t)
        /\ twin' = ThreadStep(twin, t)
        /\ UNCHANGED actor

NextNT == BothCall \/ BothStep

SpecNextThen == Init /\ [][NextNT]_vars

---------------------------------------------------------------------------
(* The interface of TPromise and TFuture, called in any order: besides the *)
(* calls of Spec, Wait(), IsValid(), Share(), and calls whose precondition *)
(* does not hold, which fail a check().  Chains are one link shorter than  *)
(* in Spec.  SpecShared is the interface of TSharedFuture: Share(), copies *)
(* and Get() on a copy from either thread, with no chains.                 *)

\* The values of the examples, and the TPromise<void> of Example_VoidFuture.
ApiValues == RootValues \cup {VoidV}

\* Element type of a TFuture handle (PendingFuture is a TFuture<int32>).
HandleType(w, h) == IF h = PendingFuture THEN "int" ELSE w.stype[h]

\* The handle has been constructed.
Exists(w, h) == w.lastOp[h] # "none"

HandleOps == {"Get", "Consume", "Wait", "WaitFor", "Then", "Next", "Share"}

\* Mutant of FutureNotRetrieved: GetFuture hands out a future every time.
FutureNotRetrievedUnchecked(w) == TRUE

\* Promise.GetFuture() may be called once only.
FutureNotRetrieved(w) == ~w.futureTaken

\* Mutant of NotComplete: SetValue does not look at the state.
NotCompleteUnchecked(w) == TRUE

\* SetValue requires a state that is not complete yet.
NotComplete(w) == ~w.complete[1]

\* Mutant of HandleValid: the check only asks whether the handle was ever
\* given a state.
HandleEverValid(w, h) == w.lastOp[h] \notin {"none", "default"}

\* Get, Consume, Wait, Then, Next and Share require a valid future.
HandleValid(w, h) == w.valid[h]

\* The preconditions the library checks at the start of a call.
Checked(w, c) ==
    CASE c.op = "GetFuture" -> FutureNotRetrieved(w)
      [] c.op = "SetValue" -> NotComplete(w)
      [] c.op \in HandleOps -> HandleValid(w, c.h)
      [] c.op = "SharedGet" -> w.shared[c.h].valid
      [] OTHER -> TRUE

\* A failed check() ends the process: no thread runs any more.  What is
\* kept is the failed call, and the contents of the states and the handles
\* as they were.
Fatal(w, c) ==
    [InitWorld(w.x, w.promiseOwner) EXCEPT
        !.fatal = [op |-> c.op, h |-> c.h],
        !.complete = w.complete,
        !.value = w.value,
        !.valid = w.valid,
        !.shared = w.shared,
        !.lastOp = w.lastOp]

\* The calls a thread can write down: its own handles, callbacks of the
\* right parameter type, and no more links or copies than the bounds allow.
MayCall(w, t, c) ==
    /\ Idle(w, t)
    /\ ~Crashed(w)
    /\ CASE c.op = "GetFuture" -> t = "GameThread"
         [] c.op = "SetValue" ->
                /\ t = w.promiseOwner
                /\ w.promise[t] = 1
                /\ (t = "Worker" => w.futureTaken)
         [] c.op \in {"Get", "Consume", "Wait", "WaitFor", "IsValid"} ->
                t = "GameThread" /\ Exists(w, c.h)
         [] c.op \in {"Then", "Next"} ->
                /\ t = "GameThread"
                /\ Exists(w, c.h)
                /\ w.nstates < MaxChain
                /\ FnIn(c.fn) = HandleType(w, c.h)
         [] c.op = "Share" ->
                /\ t = "GameThread"
                /\ Exists(w, c.h)
                /\ (w.valid[c.h] => w.shared = <<>>)
         [] c.op = "Copy" ->
                /\ t = "GameThread"
                /\ c.h \in DOMAIN w.shared
                /\ Len(w.shared) <= MaxCopies
         [] c.op = "SharedGet" -> c.h \in DOMAIN w.shared

\* The call itself, once its precondition has been checked.
DoApiCall(w0, t, c) ==
    LET w == [w0 EXCEPT !.ret = IF t = "GameThread" THEN NoRet ELSE @,
                        !.thenRet = IF t = "GameThread" THEN NoThenRet ELSE @]
    IN
    CASE c.op \in {"GetFuture", "SetValue"} ->
            [DoCall(w0, t, c) EXCEPT
                !.lastOp[1] = IF c.op = "GetFuture" THEN "returned" ELSE @]
      [] c.op = "Get" ->
            \* const FString& Ref2 = Future.Get(): Ref1 is still in scope
            [DoCall(w0, t, c) EXCEPT
                !.lastOp[c.h] = c.op,
                !.ret = IF w0.ret.op = "Get" /\ w0.ret.s = c.h
                        THEN w0.ret ELSE @]
      [] c.op = "Consume" ->
            [DoCall(w0, t, c) EXCEPT !.lastOp[c.h] = c.op]
      [] c.op \in {"Then", "Next"} ->
            [DoCall(w0, t, c) EXCEPT !.lastOp[c.h] = c.op,
                                     !.lastOp[w0.nstates + 1] = "returned"]
      [] c.op = "Wait" ->
            Push([w EXCEPT !.lastOp[c.h] = "Wait"],
                 t, [Frame("Wait", "WaitWait", c.h, NoValue, NoCallback)
                         EXCEPT !.flag = ~w.event[c.h]])
      [] c.op = "WaitFor" ->
            Push([w EXCEPT !.lastOp[c.h] = "Wait"],
                 t, [Frame("WaitFor", "WaitForWait", c.h, NoValue, NoCallback)
                         EXCEPT !.flag = ~w.event[c.h]])
      [] c.op = "IsValid" -> DoIsValid(w, c.h)
      [] c.op = "Share" -> DoShare([w EXCEPT !.lastOp[c.h] = "Share"], c.h)
      [] c.op = "Copy" -> DoCopy(w, c.h)
      [] c.op = "SharedGet" ->
            Push(w, t, [Frame("SharedGet", "SharedGetWait", w.shared[c.h].s,
                              NoValue, NoCallback)
                            EXCEPT !.flag = ~w.event[w.shared[c.h].s],
                                   !.copy = c.h])

\* A call: the check() of its precondition, then the call.
ApiCall(w, t, c) == IF Checked(w, c) THEN DoApiCall(w, t, c) ELSE Fatal(w, c)

InitApi ==
    /\ world \in {InitWorld(x, o) : x \in ApiValues, o \in Threads}
    /\ twin = world
    /\ actor = NoActor

ApiGetFuture ==
    /\ MayCall(world, "GameThread", Call("GetFuture", 1, "Double"))
    /\ world' = ApiCall(world, "GameThread", Call("GetFuture", 1, "Double"))
    /\ UNCHANGED <<twin, actor>>

ApiSetValue(t) ==
    /\ MayCall(world, t, Call("SetValue", 1, "Double"))
    /\ world' = ApiCall(world, t, Call("SetValue", 1, "Double"))
    /\ UNCHANGED <<twin, actor>>

ApiGet(h) ==
    /\ MayCall(world, "GameThread", Call("Get", h, "Double"))
    /\ world' = ApiCall(world, "GameThread", Call("Get", h, "Double"))
    /\ UNCHANGED <<twin, actor>>

ApiConsume(h) ==
    /\ MayCall(world, "GameThread", Call("Consume", h, "Double"))
    /\ world' = ApiCall(world, "GameThread", Call("Consume", h, "Double"))
    /\ UNCHANGED <<twin, actor>>

ApiWait(h) ==
    /\ MayCall(world, "GameThread", Call("Wait", h, "Double"))
    /\ world' = ApiCall(world, "GameThread", Call("Wait", h, "Double"))
    /\ UNCHANGED <<twin, actor>>

ApiIsValid(h) ==
    /\ MayCall(world, "GameThread", Call("IsValid", h, "Double"))
    /\ world' = ApiCall(world, "GameThread", Call("IsValid", h, "Double"))
    /\ UNCHANGED <<twin, actor>>

ApiThen(h, fn) ==
    /\ MayCall(world, "GameThread", Call("Then", h, fn))
    /\ world' = ApiCall(world, "GameThread", Call("Then", h, fn))
    /\ UNCHANGED <<twin, actor>>

ApiNext(h, fn) ==
    /\ MayCall(world, "GameThread", Call("Next", h, fn))
    /\ world' = ApiCall(world, "GameThread", Call("Next", h, fn))
    /\ UNCHANGED <<twin, actor>>

ApiShare(h) ==
    /\ MayCall(world, "GameThread", Call("Share", h, "Double"))
    /\ world' = ApiCall(world, "GameThread", Call("Share", h, "Double"))
    /\ UNCHANGED <<twin, actor>>

ApiCopy(k) ==
    /\ MayCall(world, "GameThread", Call("Copy", k, "Double"))
    /\ world' = ApiCall(world, "GameThread", Call("Copy", k, "Double"))
    /\ UNCHANGED <<twin, actor>>

ApiSharedGet(t, k) ==
    /\ MayCall(world, t, Call("SharedGet", k, "Double"))
    /\ world' = ApiCall(world, t, Call("SharedGet", k, "Double"))
    /\ UNCHANGED <<twin, actor>>

WaitWait(t) ==
    /\ CanStep(world, t)
    /\ Top(world, t).pc = "WaitWait"
    /\ world' = DoWait(world, t)
    /\ UNCHANGED <<twin, actor>>

SharedGetWait(t) ==
    /\ CanStep(world, t)
    /\ Top(world, t).pc = "SharedGetWait"
    /\ world' = DoSharedGet(world, t)
    /\ UNCHANGED <<twin, actor>>

\* The steps of thread t inside an operation.
StepOf(t) ==
    \/ EmplaceValue(t)
    \/ TakeCallback(t)
    \/ SetComplete(t)
    \/ Trigger(t)
    \/ RunCallback(t)
    \/ SetValueRet(t)
    \/ CbConsume(t)
    \/ CbBody(t)
    \/ CbRet(t)
    \/ ThenCreate(t)
    \/ SetContinuation(t)
    \/ Unlock(t)
    \/ ThenRet(t)
    \/ GetWait(t)
    \/ ConsumeWait(t)
    \/ WaitWait(t)

NextApi ==
    \/ ApiGetFuture
    \/ \E t \in Threads : ApiSetValue(t)
    \/ \E h \in Handles : ApiGet(h)
    \/ \E h \in Handles : ApiConsume(h)
    \/ \E h \in Handles : ApiWait(h)
    \/ \E h \in Handles : ApiIsValid(h)
    \/ \E h \in Handles, fn \in Fns : ApiThen(h, fn)
    \/ \E h \in Handles, fn \in Fns : ApiNext(h, fn)
    \/ \E h \in Handles : ApiShare(h)
    \/ \E t \in Threads : StepOf(t)

SpecApi == InitApi /\ [][NextApi]_vars

\* The steps of thread t inside SetValue, or inside Get() on a copy.
SharedStepOf(t) ==
    \/ EmplaceValue(t)
    \/ TakeCallback(t)
    \/ SetComplete(t)
    \/ Trigger(t)
    \/ RunCallback(t)
    \/ SharedGetWait(t)

NextShared ==
    \/ ApiGetFuture
    \/ \E t \in Threads : ApiSetValue(t)
    \/ \E h \in Handles : ApiShare(h)
    \/ \E k \in 1..(MaxCopies + 1) : ApiCopy(k)
    \/ \E t \in Threads, k \in 1..(MaxCopies + 1) : ApiSharedGet(t, k)
    \/ \E t \in Threads : SharedStepOf(t)

SpecShared == InitApi /\ [][NextShared]_vars

---------------------------------------------------------------------------
(* The same interface used as the examples use it (every call meets its    *)
(* precondition), with Get() on a copy from either thread, under a         *)
(* scheduler that lets every thread that can take a step take it.          *)

\* The calls that block, and those that complete a state or build a chain.
LiveCalls ==
    {Call(op, h, "Double") : op \in {"GetFuture", "SetValue", "Get",
                                     "Consume", "Wait", "Share", "SharedGet"},
                            h \in States}
    \cup {Call("Next", h, fn) : h \in States, fn \in Fns}

\* A call whose precondition holds.
LegalCall(t, c) ==
    /\ MayCall(world, t, c)
    /\ Checked(world, c)
    /\ world' = ApiCall(world, t, c)
    /\ UNCHANGED <<twin, actor>>

\* The steps of thread t inside any operation.
LiveStepOf(t) == StepOf(t) \/ SharedGetWait(t)

NextLive ==
    \/ \E t \in Threads, c \in LiveCalls : LegalCall(t, c)
    \/ \E t \in Threads : LiveStepOf(t)

\* A thread that can take a step is not held back for ever.
Fairness == \A t \in Threads : WF_vars(LiveStepOf(t))

SpecLive == InitApi /\ [][NextLive]_vars /\ Fairness

---------------------------------------------------------------------------
(* Waiting with and without a timeout, among the calls that read, consume  *)
(* and chain the future.                                                   *)

WaitCalls ==
    {Call(op, h, "Double") : op \in {"GetFuture", "SetValue", "Get",
                                     "Consume", "Wait", "WaitFor"},
                            h \in States}
    \cup {Call(op, h, fn) : op \in {"Then", "Next"}, h \in States, fn \in Fns}

\* The wait with a timeout ends: ready, or timed out.
WaitForWait(t) ==
    /\ CanStep(world, t)
    /\ Top(world, t).pc = "WaitForWait"
    /\ world' = DoWaitFor(world, t)
    /\ UNCHANGED <<twin, actor>>

NextWait ==
    \/ \E t \in Threads, c \in WaitCalls : LegalCall(t, c)
    \/ \E t \in Threads : StepOf(t)
    \/ \E t \in Threads : WaitForWait(t)

SpecWait == InitApi /\ [][NextWait]_vars

---------------------------------------------------------------------------
(* Ownership: the handles are move-only, the state behind them is a        *)
(* TSharedPtr<TFutureState>, counted by the handles and closures that hold *)
(* it and destroyed when the last of them lets go.                         *)

\* One more TSharedPtr to state s.
AddRef(w, s) == [w EXCEPT !.refs[s] = @ + 1]

\* A TSharedPtr to state s is reset or goes out of scope: the last one
\* destroys the state.
Release(w, s) ==
    [w EXCEPT !.refs[s] = @ - 1,
              !.destroyed[s] = (w.refs[s] = 1)]

\* Mutant of CountCall: a copy of a TSharedFuture shares the state without
\* counting.
CountCallForgetsCopy(w, c) ==
    CASE c.op = "GetFuture" -> AddRef(w, 1)
      [] OTHER -> w

\* What a call does to the counts once it is made: GetFuture() and the copy
\* of a TSharedFuture add a pointer to the state; Share() moves the
\* TFuture's pointer.
CountCall(w, c) ==
    CASE c.op = "GetFuture" -> AddRef(w, 1)
      [] c.op = "Copy" -> AddRef(w, w.shared[c.h].s)
      [] OTHER -> w

\* What the step of frame f does to the counts: Then() creates the next
\* state with Promise2 and Future2 on it and copies Future1.State into the
\* callback, and lets MovedState go when it returns; Consume() resets the
\* future it is called on, the client's or the callback's temporary one;
\* the callback that has run is destroyed with its Promise2.
CountStep(w, f) ==
    CASE f.pc = "ThenCreate" ->
            AddRef([w EXCEPT !.refs[w.nstates] = 2], f.s)
      [] f.pc = "ThenRet" -> Release(w, f.s)
      [] f.pc = "ConsumeWait" -> Release(w, f.s)
      [] f.pc = "CbConsume" -> Release(w, f.s)
      [] f.pc = "CbRet" -> Release(w, f.cb.target)
      [] OTHER -> w

\* Mutant of DoMovePromise: the lambda captures a copy, and the game
\* thread's Promise keeps its state.
DoMovePromiseCopies(w) ==
    AddRef([w EXCEPT !.promise["Worker"] = 1, !.promiseOwner = "Worker"], 1)

\* [Promise = MoveTemp(Promise)]: the promise moves into the lambda that
\* the worker thread runs, and the game thread's Promise is left empty.
DoMovePromise(w) ==
    [w EXCEPT !.promise = [t \in Threads |-> IF t = "Worker" THEN 1 ELSE 0],
              !.promiseOwner = "Worker"]

\* Mutant of DoDropPromise: a promise that goes away unset completes its
\* state as broken and wakes the waiters.
DoDropPromiseBreaks(w, t) ==
    LET w1 == Release([w EXCEPT !.promise[t] = 0], 1) IN
    IF w.promiseSet THEN w1
    ELSE [w1 EXCEPT !.complete[1] = TRUE, !.event[1] = TRUE]

\* The promise of thread t goes out of scope, set or not: nothing happens
\* to the state but the loss of one pointer.
DoDropPromise(w, t) == Release([w EXCEPT !.promise[t] = 0], 1)

\* The TFuture h goes out of scope.
DoDropFuture(w, h) ==
    Release([w EXCEPT !.valid[h] = FALSE, !.lastOp[h] = "dropped"], h)

\* The copy k of the TSharedFuture goes out of scope.
DoDropCopy(w, k) ==
    Release([w EXCEPT !.shared[k].valid = FALSE], w.shared[k].s)

OwnCalls ==
    {Call(op, h, "Double") : op \in {"GetFuture", "SetValue", "Get",
                                     "Consume", "Wait", "Share"},
                            h \in States}
    \cup {Call(op, k, "Double") : op \in {"Copy", "SharedGet"},
                                  k \in 1..(MaxCopies + 1)}
    \cup {Call("Next", h, "Double") : h \in States}

\* TPromise<int32> and TPromise<void>.
OwnValues == {IntV(21), VoidV}

\* The promise is constructed on the game thread.
InitOwn ==
    /\ world \in {InitWorld(x, "GameThread") : x \in OwnValues}
    /\ twin = world
    /\ actor = NoActor

\* A call whose precondition holds, on a promise or a copy that is still in
\* scope, and its pointers.
OwnCall(t, c) ==
    /\ MayCall(world, t, c)
    /\ c.op = "GetFuture" => world.promise[t] = 1
    /\ c.op = "Copy" => world.shared[c.h].valid
    /\ Checked(world, c)
    /\ world' = CountCall(ApiCall(world, t, c), c)
    /\ UNCHANGED <<twin, actor>>

\* A step of thread t inside an operation, and its pointers.
OwnStep(t) ==
    /\ CanStep(world, t)
    /\ world' = CountStep(ThreadStep(world, t), Top(world, t))
    /\ UNCHANGED <<twin, actor>>

\* Async(EAsyncExecution::Thread, [Promise = MoveTemp(Promise)]() ...),
\* after GetFuture().
MovePromise ==
    /\ ~Crashed(world)
    /\ Idle(world, "GameThread")
    /\ world.promise["GameThread"] = 1
    /\ world.futureTaken
    /\ ~world.promiseSet
    /\ world' = DoMovePromise(world)
    /\ UNCHANGED <<twin, actor>>

\* The function or the lambda that holds the promise returns.
DropPromise(t) ==
    /\ ~Crashed(world)
    /\ Idle(world, t)
    /\ world.promise[t] = 1
    /\ world' = DoDropPromise(world, t)
    /\ UNCHANGED <<twin, actor>>

\* The function that holds the future returns.
DropFuture(h) ==
    /\ ~Crashed(world)
    /\ Idle(world, "GameThread")
    /\ h \in States
    /\ world.valid[h]
    /\ world' = DoDropFuture(world, h)
    /\ UNCHANGED <<twin, actor>>

\* The function that holds the copy returns.
DropCopy(k) ==
    /\ ~Crashed(world)
    /\ Idle(world, "GameThread")
    /\ k \in DOMAIN world.shared
    /\ world.shared[k].valid
    /\ world' = DoDropCopy(world, k)
    /\ UNCHANGED <<twin, actor>>

NextOwn ==
    \/ \E c \in OwnCalls : OwnCall("GameThread", c)
    \/ OwnCall("Worker", Call("SetValue", 1, "Double"))
    \/ \E t \in Threads : OwnStep(t)
    \/ MovePromise
    \/ \E t \in Threads : DropPromise(t)
    \/ \E h \in States : DropFuture(h)
    \/ \E k \in 1..(MaxCopies + 1) : DropCopy(k)

SpecOwn == InitOwn /\ [][NextOwn]_vars

---------------------------------------------------------------------------
(* BeginPlay: the eight examples one after the other on the game thread,   *)
(* each with its own promise, and the thread that Async starts for it.     *)

NumExamples == 8

\* Sum += i for i from a to b, the loop of Example_WithAsync (added up by
\* halves to keep the evaluation shallow).
RECURSIVE SumRange(_, _)
SumRange(a, b) ==
    IF a > b THEN 0
    ELSE IF a = b THEN a
    ELSE SumRange(a, (a + b) \div 2) + SumRange(((a + b) \div 2) + 1, b)

\* What each example's promise is set to.
ExampleValue(k) ==
    CASE k = 1 -> IntV(42)
      [] k = 2 -> StrV("Hello, TFuture!")
      [] k = 3 -> IntV(12345)
      [] k = 4 -> IntV(21)
      [] k = 5 -> StrV("Shared Value")
      [] k = 6 -> VoidV
      [] k = 7 -> IntV(SumRange(1, 100))
      [] k = 8 -> StrV("Async Result")

\* Mutant of Example_BasicPromiseFuture: no thread is started to set the
\* promise.
Example_BasicPromiseFutureNoAsync ==
    << Call("GetFuture", 1, ""), Call("Get", 1, "") >>

Example_BasicPromiseFuture ==
    << Call("GetFuture", 1, ""), Call("Async", 1, ""), Call("Get", 1, "") >>

Example_GetVsConsume ==
    << Call("GetFuture", 1, ""), Call("SetValue", 1, ""),
       Call("Get", 1, ""), Call("Get", 1, ""), Call("IsValid", 1, ""),
       Call("Consume", 1, ""), Call("IsValid", 1, "") >>

Example_ThenChaining ==
    << Call("GetFuture", 1, ""), Call("Then", 1, "Format"),
       Call("Then", 2, "StrLen"), Call("SetValue", 1, ""),
       Call("Get", 3, "") >>

Example_NextChaining ==
    << Call("GetFuture", 1, ""), Call("Next", 1, "Double"),
       Call("Next", 2, "FormatResult"), Call("SetValue", 1, ""),
       Call("Consume", 3, "") >>

\* Shared is copy 1, Copy1 to Copy3 are copies 2 to 4.
Example_SharedFuture ==
    << Call("GetFuture", 1, ""), Call("Share", 1, ""),
       Call("Copy", 1, ""), Call("Copy", 1, ""), Call("Copy", 1, ""),
       Call("Async", 1, ""),
       Call("SharedGet", 2, ""), Call("SharedGet", 3, ""),
       Call("SharedGet", 4, ""), Call("CheckValid", 0, "") >>

Example_VoidFuture ==
    << Call("GetFuture", 1, ""), Call("Async", 1, ""), Call("Wait", 1, "") >>

\* Async(ThreadPool, ...) makes the promise, hands it to the pool thread and
\* returns its future.
Example_WithAsync ==
    << Call("GetFuture", 1, ""), Call("Async", 1, ""),
       Call("Next", 1, "LogInt") >>

Example_NonBlockingCallback ==
    << Call("GetFuture", 1, ""), Call("Next", 1, "LogStr"),
       Call("Async", 1, "") >>

\* The statements of example k.
Script(k) ==
    CASE k = 1 -> Example_BasicPromiseFuture
      [] k = 2 -> Example_GetVsConsume
      [] k = 3 -> Example_ThenChaining
      [] k = 4 -> Example_NextChaining
      [] k = 5 -> Example_SharedFuture
      [] k = 6 -> Example_VoidFuture
      [] k = 7 -> Example_WithAsync
      [] k = 8 -> Example_NonBlockingCallback

\* Example k starts: TPromise<T> Promise on the game thread.
ExampleWorld(k) ==
    [InitWorld(ExampleValue(k), "GameThread") EXCEPT !.example = k,
                                                     !.line = 1]

\* One statement of an example.
RunLine(w, c) ==
    CASE c.op = "Async" -> DoMovePromise(w)
      [] c.op = "CheckValid" ->
            IF \A k \in DOMAIN w.shared : w.shared[k].valid
            THEN w ELSE Fatal(w, c)
      [] OTHER -> ApiCall(w, "GameThread", c)

InitBeginPlay ==
    /\ world = ExampleWorld(1)
    /\ twin = world
    /\ actor = NoActor

\* The game thread runs the next statement of the example it is in.
BeginPlayLine ==
    /\ world.example \in 1..NumExamples
    /\ Idle(world, "GameThread")
    /\ ~Crashed(world)
    /\ world.line <= Len(Script(world.example))
    /\ world' = [RunLine(world, Script(world.example)[world.line])
                    EXCEPT !.line = world.line + 1,
                           !.example = world.example]
    /\ UNCHANGED <<twin, actor>>

\* The example returns and BeginPlay calls the next one, or returns itself
\* after the last.
BeginPlayReturn ==
    /\ world.example \in 1..NumExamples
    /\ Idle(world, "GameThread")
    /\ ~Crashed(world)
    /\ world.line > Len(Script(world.example))
    /\ world' = IF world.example = NumExamples
                THEN [world EXCEPT !.example = NumExamples + 1]
                ELSE ExampleWorld(world.example + 1)
    /\ UNCHANGED <<twin, actor>>

\* The thread started by Async calls Promise.SetValue.
Producer ==
    /\ Idle(world, "Worker")
    /\ ~Crashed(world)
    /\ world.promise["Worker"] = 1
    /\ ~world.promiseSet
    /\ world' = ApiCall(world, "Worker", Call("SetValue", 1, ""))
    /\ UNCHANGED <<twin, actor>>

NextBeginPlay ==
    \/ BeginPlayLine
    \/ BeginPlayReturn
    \/ Producer
    \/ \E t \in Threads : LiveStepOf(t)

\* Every thread that can go on eventually does.
FairBeginPlay ==
    /\ WF_vars(BeginPlayLine \/ BeginPlayReturn)
    /\ WF_vars(Producer)
    /\ \A t \in Threads : WF_vars(LiveStepOf(t))

SpecBeginPlay == InitBeginPlay /\ [][NextBeginPlay]_vars /\ FairBeginPlay

---------------------------------------------------------------------------
(* Properties.                                                             *)

\* Some thread is inside SetValue on state s and has not yet reached the
\* end of MarkComplete, or inside Then/Next on s and has not yet left
\* SetContinuation.
InFlight(w, s) ==
    \E t \in Threads : \E i \in DOMAIN w.stack[t] :
        LET f == w.stack[t][i] IN
        /\ f.s = s
        /\ \/ f.op = "SetValue" /\ f.pc # "SetValueRet"
           \/ f.op = "Then" /\ f.pc # "ThenRet"

\* The continuation of state s is running on some thread.
CallbackRunning(w, s) ==
    \E t \in Threads : \E i \in DOMAIN w.stack[t] :
        w.stack[t][i].op = "Callback" /\ w.stack[t][i].s = s

\* C1: every Get() and the Consume() on the promise's own future return the
\* value x that was passed to SetValue, whether SetValue ran before the read
\* started or while the reader was blocked.
C1_GetAndConsumeReturnX ==
    (world.ret.op \in {"Get", "Consume"} /\ world.ret.s = 1)
        => world.ret.val = world.x

\* A Get() that started before the completion event and was released by a
\* SetValue on the worker thread.
C1_Witness ==
    /\ world.ret.op = "Get"
    /\ world.ret.s = 1
    /\ world.ret.waited
    /\ world.promiseOwner = "Worker"
    /\ world.ret.val = world.x

\* C2 as stated: the stored value changes only in the step that turns
\* complete from false to true.
C2_ValueWrittenOnlyInTransitionStep ==
    [][\A s \in States :
          world'.value[s] # world.value[s]
              => (~world.complete[s] /\ world'.complete[s])]_vars

\* C2 amended: complete never returns to false; while complete is false the
\* value is written once, by EmplaceValue of the SetValue call that then
\* marks the state complete; once complete is true the value only changes
\* by a Consume(), after which no valid future refers to the state (so the
\* value seen by Get() never changes).
C2_CompleteMonotonicValueStable ==
    [][\A s \in States :
          /\ world.complete[s] => world'.complete[s]
          /\ world'.value[s] # world.value[s] =>
                IF world.complete[s]
                THEN /\ ~world'.valid[s]
                     /\ world'.value[s] = MovedFrom(world.value[s])
                ELSE /\ world.value[s] = NoValue
                     /\ \E t \in Threads :
                           /\ At(world, t, "SetValue", "Emplace")
                           /\ Top(world, t).s = s
                           /\ At(world', t, "SetValue", "TakeCallback")]_vars

\* A complete state whose value a Get() has returned and whose future is
\* still valid.
C2_Witness ==
    /\ world.complete[1]
    /\ world.valid[1]
    /\ world.ret.op = "Get"
    /\ world.ret.s = 1
    /\ world.value[1] = world.x

\* C3: a registered continuation is invoked exactly once in every
\* interleaving of Then/Next with SetValue: never twice, and once the state
\* is complete and both calls have passed their last step on the state, it
\* has been invoked.
C3_ContinuationExactlyOnce ==
    \A s \in States :
        /\ Len(world.ran[s]) <= 1
        /\ (world.reg[s] # NoReg /\ world.complete[s] /\ ~InFlight(world, s))
               => Len(world.ran[s]) = 1
        /\ world.reg[s] = NoReg => world.ran[s] = <<>>

\* The worker's SetValue took and ran the continuation while the game
\* thread was still inside the Then/Next call that registered it.
C3_Witness ==
    /\ world.ran[1] = <<"Worker">>
    /\ At(world, "GameThread", "Then", "ThenRet")
    /\ Top(world, "GameThread").s = 1

\* C4: a continuation runs on the registering thread when the state was
\* already complete at registration, otherwise on the thread that calls
\* SetValue on that state, and on no other thread.
C4_ContinuationThread ==
    \A s \in States : \A i \in DOMAIN world.ran[s] :
        world.ran[s][i] = IF world.reg[s].wasComplete
                          THEN world.reg[s].thread
                          ELSE world.completer[s]

\* Both cases in one run: the first continuation ran on the worker that
\* completed the promise, the second on the game thread that registered it
\* after its state was complete.
C4_Witness ==
    /\ world.ran[1] = <<"Worker">>
    /\ ~world.reg[1].wasComplete
    /\ world.ran[2] = <<"GameThread">>
    /\ world.reg[2].wasComplete
    /\ world.completer[2] = "Worker"

\* C5 as stated: a callback only runs once its state is complete, and the
\* callback of every later link runs inside the SetValue call that the
\* previous link's callback makes with its result.
C5_CallbackInsideTriggeringSetValue ==
    \A t \in Threads : \A i \in DOMAIN world.stack[t] :
        LET f == world.stack[t][i] IN
        f.op = "Callback" =>
            /\ world.complete[f.s]
            /\ f.s >= 2 =>
                  /\ i > 2
                  /\ world.stack[t][i - 1].op = "SetValue"
                  /\ world.stack[t][i - 1].s = f.s
                  /\ world.stack[t][i - 2].op = "Callback"
                  /\ world.stack[t][i - 2].cb.target = f.s

\* C5 amended: a callback only runs once its state is complete; a callback
\* registered before its state completed runs inside the SetValue call on
\* that state (for a later link, the call the previous link's callback makes
\* with its result), and one registered after the state completed runs
\* inside the Then/Next call that registers it.
C5_CallbackNesting ==
    \A t \in Threads : \A i \in DOMAIN world.stack[t] :
        LET f == world.stack[t][i] IN
        f.op = "Callback" =>
            /\ world.complete[f.s]
            /\ i > 1
            /\ world.stack[t][i - 1].s = f.s
            /\ IF world.reg[f.s].wasComplete
               THEN /\ world.stack[t][i - 1].op = "Then"
                    /\ world.stack[t][i - 1].pc = "ThenRet"
               ELSE /\ world.stack[t][i - 1].op = "SetValue"
                    /\ world.stack[t][i - 1].pc = "SetValueRet"
                    /\ f.s >= 2 =>
                          /\ i > 2
                          /\ world.stack[t][i - 2].op = "Callback"
                          /\ world.stack[t][i - 2].cb.target = f.s

\* The second link's callback running inside the SetValue made by the
\* first link's callback, inside the promise's SetValue.
C5_Witness ==
    \E t \in Threads :
        /\ Len(world.stack[t]) >= 4
        /\ world.stack[t][1].op = "SetValue" /\ world.stack[t][1].s = 1
        /\ world.stack[t][2].op = "Callback" /\ world.stack[t][2].s = 1
        /\ world.stack[t][3].op = "SetValue" /\ world.stack[t][3].s = 2
        /\ world.stack[t][4].op = "Callback" /\ world.stack[t][4].s = 2

\* C6: when the promise's SetValue returns, every link that was registered
\* before the call has run its callback to the end, and the state behind
\* the last future of that chain is complete and signalled.
C6_ChainDoneWhenSetValueReturns ==
    world.rootReturned =>
        /\ \A s \in 1..world.linksAtCall :
              /\ Len(world.ran[s]) = 1
              /\ ~CallbackRunning(world, s)
              /\ Len(world.log) >= s
        /\ \A s \in 1..(world.linksAtCall + 1) :
              world.complete[s] /\ world.event[s]

\* SetValue has returned on a chain of two links built before the call.
C6_Witness ==
    /\ world.rootReturned
    /\ world.linksAtCall >= 2
    /\ world.valid[3]

\* C7: Then(f).Then(g), or Next(f).Next(g), on the future of a promise set
\* to x completes the final future with g(f(x)), f is called before g, and
\* 21 doubled then formatted gives "Result=42".
C7_ChainComputesGofF ==
    LET f == world.asked[1].fn
        g == world.asked[2].fn
    IN  /\ (world.complete[3] /\ world.valid[3])
            => world.value[3] = Apply(g, Apply(f, world.x))
        /\ (world.ret.op \in {"Get", "Consume"} /\ world.ret.s = 3)
            => world.ret.val = Apply(g, Apply(f, world.x))
        /\ \A i \in DOMAIN world.log : \A j \in DOMAIN world.log :
              (world.log[i].src = 1 /\ world.log[j].src = 2) =>
                  /\ i < j
                  /\ world.log[i].fn = f /\ world.log[i].arg = world.x
                  /\ world.log[j].fn = g
                  /\ world.log[j].arg = Apply(f, world.x)
        /\ (world.x = IntV(21) /\ f = "Double" /\ g = "FormatResult"
              /\ world.ret.op = "Consume" /\ world.ret.s = 3)
            => world.ret.val = StrV("Result=42")

\* Example_NextChaining: ResultFuture.Consume() has returned.
C7_Witness ==
    /\ world.x = IntV(21)
    /\ world.asked[1] = Closure("Next", "Double", 0)
    /\ world.asked[2] = Closure("Next", "FormatResult", 0)
    /\ world.ret.op = "Consume"
    /\ world.ret.s = 3
    /\ world.ret.val = StrV("Result=42")

\* Example_ThenChaining: 12345, Then(format as "Number: %d"), Then(length).
ThenChainingScenario ==
    /\ world.x = IntV(12345)
    /\ world.asked[1] = Closure("Then", "Format", 0)
    /\ world.asked[2] = Closure("Then", "StrLen", 0)

Relabel(cb) == IF cb.kind = "Next" THEN [cb EXCEPT !.kind = "Then"] ELSE cb

Relabelled(w) ==
    [w EXCEPT !.callback = [s \in States |-> Relabel(w.callback[s])],
              !.asked = [s \in States |-> Relabel(w.asked[s])],
              !.stack = [t \in Threads |->
                           [i \in DOMAIN w.stack[t] |->
                              [w.stack[t][i] EXCEPT !.cb = Relabel(@)]]]]

C10_F2CompleteIffCompleteAtRegistration ==
    world.thenRet.f2 # 0 =>
        (world.thenRet.f2Complete <=> world.thenRet.regComplete)

\* C10 amended: the future Then() returns is complete on return when the
\* original state was complete at registration, and incomplete on return
\* whenever the original state is still incomplete at that moment; Then()
\* can return while the original state is incomplete.
C10_F2OnReturn ==
    world.thenRet.f2 # 0 =>
        /\ world.thenRet.regComplete => world.thenRet.f2Complete
        /\ ~world.thenRet.origComplete => ~world.thenRet.f2Complete
        /\ world.thenRet.regComplete => world.thenRet.origComplete

\* Then() has returned an incomplete future while the original state is
\* still incomplete.
C10_Witness ==
    /\ world.thenRet.f2 # 0
    /\ ~world.thenRet.regComplete
    /\ ~world.thenRet.origComplete
    /\ ~world.thenRet.f2Complete
    /\ ~world.complete[1]

---------------------------------------------------------------------------
(* Properties of the handle interface (SpecApi, SpecShared).               *)

\* The game thread's call of kind op on handle h returns in this step.
Returns(op, h) ==
    /\ At(world, "GameThread", op, op \o "Wait")
    /\ Top(world, "GameThread").s = h
    /\ world'.stack["GameThread"] = <<>>
    /\ ~Crashed(world')

\* C11: Get() on a valid future changes nothing: when it returns, the future
\* is still valid, the state is still complete and holds the value it held,
\* no other state or handle has changed, the call returns that value, and a
\* Get() that follows another Get() on the same future returns the same
\* value again.
C11_GetChangesNothing ==
    [][\A h \in States :
          Returns("Get", h) =>
              /\ world.valid[h] /\ world'.valid = world.valid
              /\ world.complete[h] /\ world'.complete = world.complete
              /\ world'.value = world.value
              /\ world'.callback = world.callback
              /\ world'.shared = world.shared
              /\ world'.ret.op = "Get"
              /\ world'.ret.val = world.value[h]
              /\ (world.ret.op = "Get" /\ world.ret.s = h)
                    => world'.ret.val = world.ret.val]_vars

\* Example_GetVsConsume: Ref1 holds "Hello, TFuture!" and the second Get()
\* on the same future is about to return.
C11_Witness ==
    /\ At(world, "GameThread", "Get", "GetWait")
    /\ Top(world, "GameThread").s = 1
    /\ world.ret.op = "Get"
    /\ world.ret.s = 1
    /\ world.ret.val = StrV("Hello, TFuture!")
    /\ world.valid[1]

\* Consume() on handle h has returned, and the game thread is about to
\* make its next call.
Consumed(w, h) ==
    /\ w.lastOp[h] = "Consume"
    /\ Idle(w, "GameThread")
    /\ ~Crashed(w)

\* The call c by the game thread fails a check() and returns nothing.
FailsCheck(w, c) ==
    LET after == ApiCall(w, "GameThread", c) IN
    /\ MayCall(w, "GameThread", c)
    /\ after.fatal = [op |-> c.op, h |-> c.h]
    /\ after.ret = NoRet
    /\ after.stack["GameThread"] = <<>>
    /\ after.valid = w.valid
    /\ after.value = w.value
    /\ after.shared = w.shared

\* C12: once Consume() on a future has returned, the handle is invalid, and
\* a Get, Consume or Share on it, and every Then or Next the client can
\* write on it, fails a check() instead of returning a value: no second
\* Consume() succeeds.
C12_ConsumeOnceThenFatal ==
    \A h \in States :
        Consumed(world, h) =>
            /\ ~world.valid[h]
            /\ \A op \in {"Get", "Consume", "Share"} :
                  FailsCheck(world, Call(op, h, "Double"))
            /\ \A op \in {"Then", "Next"} : \A fn \in Fns :
                  MayCall(world, "GameThread", Call(op, h, fn))
                      => FailsCheck(world, Call(op, h, fn))

\* Example_GetVsConsume continued with the Future.Get() of its last comment:
\* the assertion has been triggered by a Get() on the consumed future.
C12_Witness ==
    /\ world.fatal = [op |-> "Get", h |-> 1]
    /\ world.lastOp[1] = "Consume"
    /\ world.x = StrV("Hello, TFuture!")
    /\ world.value[1] = StrV("")
    /\ ~world.valid[1]

\* C13: IsValid() returns true exactly when the handle still refers to a
\* state: false for the default-constructed PendingFuture and when the last
\* call on the handle was Consume, Then, Next or Share; true when the handle
\* has just been returned by GetFuture, Then or Next, or was last used by
\* Get or Wait.
C13_IsValidIffHoldsState ==
    world.ret.op = "IsValid" =>
        LET h == world.ret.s IN
        /\ world.ret.val = BoolV(world.valid[h])
        /\ world.lastOp[h] \in {"returned", "Get", "Wait"}
              => world.ret.val = BoolV(TRUE)
        /\ world.lastOp[h] \in {"default", "Consume", "Then", "Next", "Share"}
              => world.ret.val = BoolV(FALSE)
        /\ world.lastOp[h] # "none"

\* IsValid() has returned false on a future that was turned into a
\* TSharedFuture.
C13_Witness ==
    /\ world.ret.op = "IsValid"
    /\ world.ret.s = 1
    /\ world.lastOp[1] = "Share"
    /\ world.ret.val = BoolV(FALSE)
    /\ Len(world.shared) = 1

\* C14: once the promise's SetValue has been called, a second SetValue by
\* the thread that holds the promise fails a check(): no second SetValue
\* starts, and the completion flag and the stored value of every state are
\* left as they were.
C14_SecondSetValueFatal ==
    LET t == world.promiseOwner
        c == Call("SetValue", 1, "Double")
        after == ApiCall(world, t, c)
    IN  (world.promiseSet /\ Idle(world, t) /\ ~Crashed(world)) =>
            /\ world.complete[1]
            /\ MayCall(world, t, c)
            /\ after.fatal = [op |-> "SetValue", h |-> 1]
            /\ after.stack[t] = <<>>
            /\ after.complete = world.complete
            /\ after.value = world.value

\* A second SetValue on the worker thread has stopped the process, and the
\* state still holds the value of the first.
C14_Witness ==
    /\ world.fatal = [op |-> "SetValue", h |-> 1]
    /\ world.promiseOwner = "Worker"
    /\ world.complete[1]
    /\ world.value[1] = world.x
    /\ world.x = IntV(21)

\* C15: once GetFuture() has returned the promise's future, a second
\* GetFuture() fails a check(): it returns no future, so no handle becomes
\* valid by it and the promise never has two futures.
C15_SecondGetFutureFatal ==
    LET c == Call("GetFuture", 1, "Double")
        after == ApiCall(world, "GameThread", c)
    IN  (world.futureTaken /\ Idle(world, "GameThread") /\ ~Crashed(world)) =>
            /\ MayCall(world, "GameThread", c)
            /\ after.fatal = [op |-> "GetFuture", h |-> 1]
            /\ after.valid = world.valid
            /\ after.shared = world.shared
            /\ world.lastOp[1] # "none"

\* A second GetFuture() has stopped the process after the first future was
\* consumed.
C15_Witness ==
    /\ world.fatal = [op |-> "GetFuture", h |-> 1]
    /\ world.lastOp[1] = "Consume"
    /\ ~world.valid[1]

\* C16: every Get() on every copy of the TSharedFuture made from the
\* promise's future returns the value passed to SetValue, on either thread,
\* in every order of the copies, whether it started before or after
\* SetValue; and a Get() in progress on a copy has read nothing else.
C16_EveryCopyGetsX ==
    /\ world.ret.op = "SharedGet" =>
          /\ world.ret.val = world.x
          /\ world.ret.copy \in DOMAIN world.shared
          /\ world.shared[world.ret.copy].s = 1
          /\ world.complete[1]
    /\ \A k \in DOMAIN world.shared : world.shared[k].s = 1
    /\ world.complete[1] => world.value[1] = world.x

\* Get() on the last copy started before SetValue and has returned the
\* value, while the other thread is inside Get() on the first handle.
C16_Witness ==
    /\ world.ret.op = "SharedGet"
    /\ world.ret.copy = MaxCopies + 1
    /\ world.ret.waited
    /\ world.ret.val = StrV("Hello, TFuture!")
    /\ \E t \in Threads :
          /\ At(world, t, "SharedGet", "SharedGetWait")
          /\ Top(world, t).copy = 1

\* C17: every copy of a TSharedFuture is valid from its construction on,
\* however many Get() calls have been made on it or on the other copies.
C17_CopiesStayValid ==
    \A k \in DOMAIN world.shared :
        /\ world.shared[k].valid
        /\ Checked(world, Call("SharedGet", k, "Double"))

\* Get() has returned on one copy while three handles exist.
C17_Witness ==
    /\ world.ret.op = "SharedGet"
    /\ world.ret.copy = 2
    /\ Len(world.shared) = 3
    /\ world.shared[2].valid

\* C18: Wait() on the promise's future returns only after SetValue has been
\* called by the thread that holds the promise and has completed the state
\* and triggered its event; in particular for a TPromise<void> set on the
\* worker thread.  Wait() leaves the future valid.
C18_WaitReturnsAfterSetValue ==
    (world.ret.op = "Wait" /\ world.ret.s = 1) =>
        /\ world.promiseSet
        /\ world.completer[1] = world.promiseOwner
        /\ world.complete[1]
        /\ world.event[1]
        /\ world.valid[1]

\* Example_VoidFuture: Future.Wait() started before the worker's SetValue()
\* and has returned.
C18_Witness ==
    /\ world.ret.op = "Wait"
    /\ world.ret.s = 1
    /\ world.ret.waited
    /\ world.x = VoidV
    /\ world.promiseOwner = "Worker"
    /\ world.complete[1]

\* Thread t is inside Get(), Consume() or Wait() on the future of state s,
\* or inside Get() on a copy of its TSharedFuture, and has not returned.
Blocked(t, s) ==
    /\ ~Idle(world, t)
    /\ Top(world, t).pc \in {"GetWait", "ConsumeWait", "WaitWait",
                             "SharedGetWait"}
    /\ Top(world, t).s = s

\* SetValue has been called on state s.
SetValueCalled(s) ==
    \/ world.completer[s] # NoThread
    \/ \E t \in Threads : \E i \in DOMAIN world.stack[t] :
          world.stack[t][i].op = "SetValue" /\ world.stack[t][i].s = s

\* C19: a thread inside Get(), Consume() or Wait() on a state on which
\* SetValue has been called eventually returns, whether it started to wait
\* before or after the event was triggered, if every thread that can take a
\* step eventually takes it.
C19_BlockedThreadReleased ==
    \A t \in Threads :
        (\E s \in States : Blocked(t, s) /\ SetValueCalled(s))
            ~> Idle(world, t)

\* The game thread is waiting on the future of the first link since before
\* its event was triggered, and the worker's callback has just called
\* SetValue on that state.
C19_Witness ==
    /\ Blocked("GameThread", 2)
    /\ Top(world, "GameThread").flag
    /\ At(world, "Worker", "SetValue", "Emplace")
    /\ Top(world, "Worker").s = 2

\* C21: when Wait(), or a wait with a timeout, returns on a future, ready
\* or timed out, the future is still valid and no state's value, completion
\* flag, event or continuation and no handle has changed, so that a further
\* Wait, timed wait, Get, Consume, Then or Next on the future passes its
\* check.
C21_WaitChangesNothing ==
    [][\A h \in States :
          (Returns("Wait", h) \/ Returns("WaitFor", h)) =>
              /\ world.valid[h] /\ world'.valid = world.valid
              /\ world'.complete = world.complete
              /\ world'.value = world.value
              /\ world'.callback = world.callback
              /\ world'.event = world.event
              /\ world'.shared = world.shared
              /\ \A op \in {"Wait", "WaitFor", "Get", "Consume"} :
                    /\ MayCall(world', "GameThread", Call(op, h, "Double"))
                    /\ Checked(world', Call(op, h, "Double"))
              /\ \A op \in {"Then", "Next"} :
                    Checked(world', Call(op, h, "Double"))
              /\ world'.ret.op = "WaitFor" =>
                    world'.ret.val = BoolV(world.complete[h] /\ world.event[h])
              /\ world'.ret.op = "Wait" => world.complete[h]]_vars

\* A wait with a timeout has returned not ready: the future is still valid
\* and its state is still incomplete and without a value.
C21_Witness ==
    /\ world.ret.op = "WaitFor"
    /\ world.ret.s = 1
    /\ world.ret.val = BoolV(FALSE)
    /\ world.valid[1]
    /\ ~world.complete[1]
    /\ world.value[1] = NoValue

\* The promise has gone out of scope without SetValue: no thread holds it.
DroppedUnset(w) ==
    /\ ~w.promiseSet
    /\ \A t \in Threads : w.promise[t] = 0

\* C22: once the promise has been dropped without SetValue, it stays so:
\* no step completes its state or triggers its event, and a thread that is
\* inside Get(), Consume() or Wait() on it is still inside it after every
\* step.
C22_DroppedPromiseNeverCompletes ==
    [][DroppedUnset(world) =>
          /\ DroppedUnset(world')
          /\ ~world'.complete[1]
          /\ ~world'.event[1]
          /\ world'.value[1] = NoValue
          /\ \A t \in Threads : Blocked(t, 1) => Blocked(t, 1)']_vars

\* The promise was moved to the worker and dropped there unset, and the
\* game thread is inside Get(), Consume() or Wait() on its future.
C22_Witness ==
    /\ DroppedUnset(world)
    /\ world.promiseOwner = "Worker"
    /\ Blocked("GameThread", 1)
    /\ ~world.complete[1]

\* The handles, closures and locals that hold a pointer to state s: the
\* promise, the future, the copies of the shared future, the callback
\* stored in a state (with its Promise2 and its Future1.State), and, inside
\* Then(), SetValue and a running callback, MovedState, Future2, the
\* callback being built or taken out, and the temporary future.
Holders(w, s) ==
    {<<"Promise", t, 0>> : t \in {u \in Threads : w.promise[u] = s}}
    \cup {<<"Future", "", h>> : h \in {g \in States : g = s /\ w.valid[g]}}
    \cup {<<"Copy", "", k>> :
             k \in {j \in DOMAIN w.shared :
                       w.shared[j].valid /\ w.shared[j].s = s}}
    \cup {<<"StoredState", "", r>> :
             r \in {q \in States : q = s /\ w.callback[q].kind # "none"}}
    \cup {<<"StoredPromise", "", r>> :
             r \in {q \in States : /\ w.callback[q].kind # "none"
                                   /\ w.callback[q].target = s}}
    \cup UNION {
           {<<"MovedState", t, i>> :
               i \in {j \in DOMAIN w.stack[t] :
                         /\ w.stack[t][j].op = "Then"
                         /\ w.stack[t][j].pc # "ThenCreate"
                         /\ w.stack[t][j].s = s}}
           \cup {<<"Future2", t, i>> :
               i \in {j \in DOMAIN w.stack[t] :
                         /\ w.stack[t][j].op = "Then"
                         /\ w.stack[t][j].pc # "ThenCreate"
                         /\ w.stack[t][j].cb.target = s}}
           \cup {<<"ClosureState", t, i>> :
               i \in {j \in DOMAIN w.stack[t] :
                         LET f == w.stack[t][j] IN
                         /\ f.s = s
                         /\ \/ f.op = "Then" /\ f.pc = "SetContinuation"
                            \/ f.op = "Then" /\ f.pc = "Unlock" /\ f.flag
                            \/ /\ f.op = "SetValue"
                               /\ f.cb.kind # "none"
                               /\ f.pc \in {"SetComplete", "Trigger",
                                            "RunCallback"}
                            \/ f.op = "Callback" /\ f.pc = "CbConsume"}}
           \cup {<<"ClosurePromise", t, i>> :
               i \in {j \in DOMAIN w.stack[t] :
                         LET f == w.stack[t][j] IN
                         /\ f.cb.target = s
                         /\ \/ f.op = "Then" /\ f.pc = "SetContinuation"
                            \/ f.op = "Then" /\ f.pc = "Unlock" /\ f.flag
                            \/ /\ f.op = "SetValue"
                               /\ f.cb.kind # "none"
                               /\ f.pc \in {"SetComplete", "Trigger",
                                            "RunCallback"}
                            \/ f.op = "Callback"}}
           : t \in Threads }

\* C23: the count of every state that was created is the number of handles,
\* closures and locals that hold it, and the state is destroyed exactly
\* when none holds it: never while a promise, a future, a copy of the
\* shared future or a continuation refers to it or a thread is inside an
\* operation on it, and as soon as the last of them lets go.  A state whose
\* promise was moved to the worker and dropped there lives on for the copies.
C23_DestroyedIffUnreferenced ==
    \A s \in States :
        /\ world.refs[s] = Cardinality(Holders(world, s))
        /\ s <= world.nstates =>
              (world.destroyed[s] <=> Holders(world, s) = {})
        /\ s > world.nstates => ~world.destroyed[s]
        /\ world.destroyed[s] =>
              \A t \in Threads : \A i \in DOMAIN world.stack[t] :
                  world.stack[t][i].s # s

\* The promise was moved to the worker, set and dropped there while the
\* game thread held copies of the shared future; the game thread has then
\* read the value through a copy, and the state was destroyed when the last
\* copy went out of scope.
C23_Witness ==
    /\ world.promiseOwner = "Worker"
    /\ world.promiseSet
    /\ \A t \in Threads : world.promise[t] = 0
    /\ Len(world.shared) >= 2
    /\ world.ret.op = "SharedGet"
    /\ world.ret.waited
    /\ world.ret.val = world.x
    /\ world.refs[1] = 0
    /\ world.destroyed[1]

\* The value that SetValue was called with on state s: x for the promise
\* of the client, and for a link what the callback of the state before it
\* returned.
Written(w, s) ==
    IF s = 1 THEN w.x
    ELSE LET i == CHOOSE j \in DOMAIN w.log : w.log[j].src = s - 1
         IN  w.log[i].res

\* Thread t is about to read the value of state s: in Get() or Consume()
\* past the wait, or in a callback that consumes its temporary future.
Reads(w, t, s) ==
    /\ CanStep(w, t)
    /\ Top(w, t).pc \in {"GetWait", "ConsumeWait", "CbConsume"}
    /\ Top(w, t).s = s

\* C24: a thread that is about to read the value of a state, in Get(), in
\* Consume() or in a continuation, finds the state complete and holding the
\* value SetValue was called with; what Get() and Consume() returned and
\* what a callback was given is that value; and nothing has been read from
\* a state that is not complete.
C24_ReadsOnlyCompleteValue ==
    /\ \A t \in Threads : \A s \in States :
          Reads(world, t, s) =>
              /\ world.complete[s]
              /\ world.value[s] # NoValue
              /\ world.value[s] = Written(world, s)
    /\ world.ret.op \in {"Get", "Consume"} =>
          /\ world.complete[world.ret.s]
          /\ world.ret.val = Written(world, world.ret.s)
    /\ \A i \in DOMAIN world.log :
          /\ world.complete[world.log[i].src]
          /\ world.log[i].arg = Written(world, world.log[i].src)

\* The worker has stored the value and not yet set bComplete, while the
\* game thread is inside Get() and has to wait; a callback has read the
\* value of the state before.
C24_Witness ==
    /\ At(world, "GameThread", "Get", "GetWait")
    /\ Top(world, "GameThread").s = 2
    /\ At(world, "Worker", "SetValue", "TakeCallback")
    /\ Top(world, "Worker").s = 2
    /\ world.value[2] = Written(world, 2)
    /\ ~world.complete[2]
    /\ ~Reads(world, "GameThread", 2)
    /\ Len(world.log) = 1

\* Then() and Next() on a state nobody completes: steps a-d, e, leaving
\* the lock, and the return of Future2.
ThenSteps == 4

\* Thread t takes up to n steps of its own, as long as it can.
RECURSIVE Steps(_, _, _)
Steps(w, t, n) ==
    IF n = 0 \/ ~CanStep(w, t) THEN w
    ELSE Steps(ThreadStep(w, t), t, n - 1)

\* C25: Then() and Next() called on a future whose state is not complete
\* and on which SetValue has not been called return Future2 after four
\* steps of the calling thread, none of which waits, and leave the state
\* incomplete; Share() returns at once; and a thread inside SetValue, the
\* callbacks it runs included, can always take its next step, unless it is
\* about to enter the lock while another thread is between SetContinuation
\* and leaving the lock, and that thread can take its step: SetValue waits
\* for no Get(), Consume() or Wait().
C25_ChainingAndSetValueNeverWait ==
    /\ \A t \in Threads :
          (/\ At(world, t, "Then", "ThenCreate")
           /\ ~SetValueCalled(Top(world, t).s)) =>
              LET s  == Top(world, t).s
                  w4 == Steps(world, t, ThenSteps)
              IN  /\ Idle(w4, t)
                  /\ w4.thenRet.orig = s
                  /\ w4.valid[w4.thenRet.f2]
                  /\ ~w4.complete[s]
                  /\ ~w4.complete[w4.thenRet.f2]
                  /\ w4.callback[s].kind \in {"Then", "Next"}
    /\ \A h \in States :
          (/\ MayCall(world, "GameThread", Call("Share", h, "Double"))
           /\ Checked(world, Call("Share", h, "Double"))) =>
              LET w1 == ApiCall(world, "GameThread", Call("Share", h, "Double"))
              IN  /\ Idle(w1, "GameThread")
                  /\ w1.shared # <<>>
                  /\ w1.complete = world.complete
    /\ \A t \in Threads :
          (~Idle(world, t) /\ ~Crashed(world)
              /\ world.stack[t][1].op = "SetValue") =>
              \/ CanStep(world, t)
              \/ /\ Top(world, t).pc = "TakeCallback"
                 /\ \E u \in Threads \ {t} :
                       /\ world.mutex[Top(world, t).s] = u
                       /\ At(world, u, "Then", "Unlock")
                       /\ CanStep(world, u)

\* Next() and then Share() have returned on a chain whose promise has not
\* been set: no state is complete and the callback is stored.
C25_Witness ==
    /\ ~world.promiseSet
    /\ Idle(world, "GameThread")
    /\ world.nstates = 2
    /\ world.callback[1].kind = "Next"
    /\ world.shared = <<SharedHandle(2)>>
    /\ ~world.complete[1]
    /\ ~world.complete[2]

PromiseHandles(w, s) ==
    {h \in Holders(w, s) :
        h[1] \in {"Promise", "StoredPromise", "ClosurePromise"}}

\* The TFuture handles on state s: the client's future, Future2 inside the
\* Then() that has not returned it yet, and the temporary future a running
\* callback was given and has not consumed.
FutureHandles(w, s) ==
    {h \in Holders(w, s) : h[1] \in {"Future", "Future2"}}
    \cup UNION {
           {<<"View", t, i>> :
               i \in {j \in DOMAIN w.stack[t] :
                         /\ w.stack[t][j].op = "Callback"
                         /\ w.stack[t][j].pc = "CbConsume"
                         /\ w.stack[t][j].s = s}}
           : t \in Threads }

\* C27: every state has at most one TPromise handle and at most one TFuture
\* handle on it at any moment; the promise that was moved into the worker's
\* lambda has left the game thread's Promise empty, and a future that was
\* chained or shared holds no state.
C27_OneWriteEndOneReadEnd ==
    /\ \A s \in States :
          /\ Cardinality(PromiseHandles(world, s)) <= 1
          /\ Cardinality(FutureHandles(world, s)) <= 1
          /\ world.nreg[s] = 1 => ~world.valid[s]
          /\ (\E k \in DOMAIN world.shared : world.shared[k].s = s) =>
                ~world.valid[s]
    /\ world.promiseOwner = "Worker" => world.promise["GameThread"] = 0

\* The promise has been moved to the worker, which is inside SetValue, and
\* the callback of Next(), which holds Promise2, is running with its
\* temporary future on the first state while the game thread holds Future2.
C27_Witness ==
    /\ world.promise = [t \in Threads |-> IF t = "Worker" THEN 1 ELSE 0]
    /\ At(world, "Worker", "Callback", "CbConsume")
    /\ Top(world, "Worker").s = 1
    /\ ~world.valid[1]
    /\ world.valid[2]
    /\ Cardinality(PromiseHandles(world, 1)) = 1
    /\ Cardinality(PromiseHandles(world, 2)) = 1
    /\ Cardinality(FutureHandles(world, 1)) = 1
    /\ Cardinality(FutureHandles(world, 2)) = 1

\* Frame i of thread t is a callback about to consume its temporary future,
\* and it was invoked by the SetValue whose frame is just below it.
InsideSetValue(w, t, i) ==
    /\ i > 1
    /\ w.stack[t][i].op = "Callback"
    /\ w.stack[t][i].pc = "CbConsume"
    /\ w.stack[t][i - 1].op = "SetValue"
    /\ w.stack[t][i - 1].s = w.stack[t][i].s

\* C28: a callback that is about to call Consume() on the temporary future
\* it was given finds its state complete, holding the value SetValue was
\* called with, and the lock of the state free; and when the callback was
\* invoked by the SetValue that completed the state, which is still on the
\* stack below it, the event is already triggered, so that Consume() does
\* not wait: the thread can take the step, and the step hands that value
\* to the callback.
C28_CallbackConsumeDoesNotBlock ==
    \A t \in Threads : \A i \in DOMAIN world.stack[t] :
        LET f == world.stack[t][i] IN
        (f.op = "Callback" /\ f.pc = "CbConsume") =>
            /\ world.complete[f.s]
            /\ world.value[f.s] = Written(world, f.s)
            /\ LockFree(world, f.s)
            /\ InsideSetValue(world, t, i) =>
                  /\ world.stack[t][i - 1].pc = "SetValueRet"
                  /\ world.completer[f.s] = t
                  /\ world.event[f.s]
                  /\ i = Len(world.stack[t])
                  /\ CanStep(world, t)
                  /\ Top(ThreadStep(world, t), t).v = Written(world, f.s)
                  /\ Top(ThreadStep(world, t), t).pc = "CbBody"

\* The worker's SetValue has completed the first state and invoked the
\* callback, which is about to consume its temporary future while SetValue
\* has not returned.
C28_Witness ==
    /\ Len(world.stack["Worker"]) = 2
    /\ InsideSetValue(world, "Worker", 2)
    /\ world.stack["Worker"][2].s = 1
    /\ world.value[1] = world.x
    /\ ~world.rootReturned
    /\ ~world.complete[2]

\* The steps of MarkComplete in their order.
MarkCompleteOrder ==
    <<"Emplace", "TakeCallback", "SetComplete", "Trigger", "RunCallback",
      "SetValueRet">>

\* The place of a step in that order.
StepNo(pc) == CHOOSE n \in DOMAIN MarkCompleteOrder : MarkCompleteOrder[n] = pc

InBlockingCall ==
    \E i \in DOMAIN world.stack["GameThread"] :
        world.stack["GameThread"][i].op \in {"Get", "Consume", "Wait",
                                             "SharedGet"}

\* C30: BeginPlay returns, after the eight examples and with no failed
\* check(), if every thread that can go on eventually does; whenever the
\* game thread is inside a call that has to wait, the promise is with the
\* thread Async started or SetValue has been called; and in examples 7 and
\* 8 the game thread is never inside Get(), Consume() or Wait().
C30_BeginPlayTerminates ==
    /\ <>(world.example = NumExamples + 1)
    /\ [](~Crashed(world))
    /\ [](\A s \in States :
            (Blocked("GameThread", s) /\ ~world.event[s]) =>
                \/ world.promise["Worker"] = 1
                \/ world.promiseSet)
    /\ [](world.example \in {7, 8} => ~InBlockingCall)

\* BeginPlay has returned while the callback of example 8 has not run: the
\* promise is not set yet.
C30_Witness ==
    /\ world.example = NumExamples + 1
    /\ world.x = StrV("Async Result")
    /\ world.callback[1].fn = "LogStr"
    /\ ~world.promiseSet
    /\ world.ran[1] = <<>>

---------------------------------------------------------------------------
(* The pimpl actor.                                                        *)

\* C31 as stated: Impl is valid after construction whatever is called, so
\* IsImplValid() returns true, GetCounter() never returns -1,
\* GetActorDisplayName() never returns "Invalid" and PerformCalculation()
\* never returns its 0.0 fallback.
C31_NeverASentinel ==
    /\ actor.Impl.valid
    /\ actor.ret.op = "IsImplValid" => actor.ret.int = 1
    /\ actor.ret.op = "GetCounter" => actor.ret.int # -1
    /\ actor.ret.op = "GetActorDisplayName" => actor.ret.str # "Invalid"
    /\ actor.ret.op = "PerformCalculation" => ~actor.ret.fallback

\* C31, amended: Impl is valid after construction whatever is called, so
\* IsImplValid() returns true and no operation takes its branch for an
\* invalid Impl: GetCounter() returns Counter, PerformCalculation() returns
\* what Calculate() computed, and GetActorDisplayName() returns the stored
\* DisplayName, which is "Invalid" only when that name was set.
C31_ImplAlwaysValid ==
    /\ actor.Impl.valid
    /\ ~actor.ret.fallback
    /\ actor.ret.op = "IsImplValid" => actor.ret.int = 1
    /\ actor.ret.op = "GetCounter" => actor.ret.int = actor.Impl.obj.Counter
    /\ actor.ret.op = "GetActorDisplayName" =>
           actor.ret.str = actor.Impl.obj.DisplayName
    /\ actor.ret.op = "PerformCalculation" =>
           actor.ret.flt = actor.Impl.obj.LastCalculationResult

\* GetActorDisplayName() has returned "Invalid", the name that
\* SetActorDisplayName() stored, after BeginPlay and one IncrementCounter().
C31_Witness ==
    /\ actor.ret.op = "GetActorDisplayName"
    /\ actor.ret.str = "Invalid"
    /\ ~actor.ret.fallback
    /\ actor.Impl.valid
    /\ actor.Impl.obj.bIsInitialized
    /\ actor.Impl.obj.Counter = 1

\* Counter c equals the number of calls that incs stands for.
EqualsCalls(c, incs) == c >= incs.since /\ c - incs.since = incs.n

\* The operations that C32 names as leaving the counter alone.
LeaveCounter ==
    {"SetActorDisplayName", "PerformCalculation", "Tick", "BeginPlay",
     "PrintDebugInfo"}

\* C32: while the actor runs, GetCounter() returns the number of
\* IncrementCounter() calls since construction or since the last
\* ResetState(), and SetActorDisplayName, PerformCalculation, Tick,
\* BeginPlay and PrintDebugInfo leave the counter as it was.
C32_CounterCountsIncrements ==
    Alive =>
        /\ EqualsCalls(DoGetCounter(actor).ret.int, actor.incs)
        /\ actor.ret.op \in LeaveCounter =>
               actor.Impl.obj.Counter = actor.before.obj.Counter

\* Impl p is Impl q after a reset: Counter 0, StateHistory the single entry
\* 0, DisplayName and bIsInitialized those of q.
IsReset(p, q) ==
    /\ p.valid
    /\ p.obj.Counter = 0
    /\ p.obj.StateHistory = <<Zero>>
    /\ p.obj.DisplayName = q.obj.DisplayName
    /\ p.obj.bIsInitialized = q.obj.bIsInitialized

\* C33: from every state the actor reaches, ResetState() sets Counter to 0
\* and StateHistory to the single entry 0 and leaves DisplayName and
\* bIsInitialized as they were, a second ResetState() right after it changes
\* nothing, and every ResetState() that was called has done so.
C33_ResetState ==
    Alive =>
        /\ IsReset(DoResetState(actor).Impl, actor.Impl)
        /\ DoResetState(DoResetState(actor)).Impl = DoResetState(actor).Impl
        /\ actor.ret.op = "ResetState" => IsReset(actor.Impl, actor.before)

\* ResetState() has returned on an initialized actor that was renamed, had
\* counted one call and had two entries in StateHistory.
C33_Witness ==
    /\ actor.ret.op = "ResetState"
    /\ actor.before.obj.Counter = 1
    /\ Len(actor.before.obj.StateHistory) = 2
    /\ actor.before.obj.bIsInitialized
    /\ actor.before.obj.DisplayName = "Hero"
    /\ IsReset(actor.Impl, actor.before)

\* C34: the first Initialize() sets bIsInitialized and appends one entry, 0,
\* to StateHistory and changes nothing else; every later Initialize()
\* changes nothing; so bIsInitialized never goes back to false, and over
\* all the BeginPlay() calls Initialize() appends one entry at most.
C34_InitializeIdempotent ==
    LET o == actor.Impl.obj
        p == Initialize(o)
    IN  /\ p.bIsInitialized
        /\ ~o.bIsInitialized =>
               p = [o EXCEPT !.bIsInitialized = TRUE,
                             !.StateHistory = o.StateHistory \o <<Zero>>]
        /\ o.bIsInitialized => p = o
        /\ Initialize(p) = p
        /\ actor.before.obj.bIsInitialized => o.bIsInitialized
        /\ actor.plays > 0 => o.bIsInitialized
        /\ actor.initialEntries = (IF o.bIsInitialized THEN 1 ELSE 0)
        /\ (actor.ret.op = "BeginPlay" /\ actor.before.obj.bIsInitialized) =>
               actor.Impl = actor.before

\* The second BeginPlay() has returned: the actor was initialized before it
\* and it changed nothing; of the two entries of StateHistory Initialize()
\* appended one.
C34_Witness ==
    /\ actor.ret.op = "BeginPlay"
    /\ actor.plays = 2
    /\ actor.before.obj.bIsInitialized
    /\ actor.Impl = actor.before
    /\ actor.initialEntries = 1
    /\ Len(actor.Impl.obj.StateHistory) = 2

====
